---- MODULE Spec2Model ----
(***************************************************************************)
(* Model of the indicator engine of kevinhust/PMCP2                        *)
(* (src/20-Process-stock-data/lambda_function.py): the series handed to    *)
(* calculate_technical_signals, the record it returns, the vote of         *)
(* analyze_signals and the loop of its lambda_handler; and of the ingest   *)
(* function (src/lambda_function.py): calculate_indicators, process_record *)
(* and the history its lambda_handler keeps; of store_prediction on any    *)
(* result; of the producers (process_symbols of src/push_to_kinesis.py,    *)
(* lambda_handler of src/10-Push-to-Kinesis/lambda_function.py); and of    *)
(* the export handler (src/30-export-dynamodb-to-s3/lambda_function.py).   *)
(*                                                                         *)
(* Numbers.  The code computes in IEEE doubles (pandas).  A double is      *)
(* modelled by the exact rational it approximates, [k |-> "rat", n, d],    *)
(* with NaN and +-Inf as values of their own.  The square root of the      *)
(* Bollinger bands is kept symbolic ([k |-> "band", ...]).  Prices are     *)
(* small integers and at most the two latest closes of a series differ     *)
(* from the base close, so every comparison the code makes is separated by *)
(* far more than a rounding error and every EMA fits the checker's         *)
(* integers.                                                               *)
(***************************************************************************)
EXTENDS Integers, Sequences, FiniteSets, TLC

VARIABLES
    historical_data,  \* the list passed as historical_data
    stock_data,       \* the current tick (stock_data_formatted)
    signals,          \* the dict returned by calculate_technical_signals
    locals,           \* locals of calculate_technical_signals at its return
    analysis,         \* the dict returned by analyze_signals
    vote,             \* score and total_weight of analyze_signals at its return
    pc,               \* the position: "start" -> "calculated" -> "analyzed" for
                      \* the evaluation of a tick, "fetch" -> "loop" ->
                      \* "returned" for the handler of src/lambda_function.py,
                      \* "call" -> "called" for calculate_indicators
    table,            \* the DynamoDB table of src/lambda_function.py
    event,            \* the event passed to its lambda_handler
    history,          \* historical_data of that handler
    fetched,          \* historical_data as it was at line 243
    processed_records,
    cursor,           \* the number of records the loop of line 245 has taken
    combined,         \* the list process_record passed to calculate_indicators
    response,         \* what the handler returned
    ind_data,         \* the argument (data) of calculate_indicators
    indicators,       \* the dict calculate_indicators returned
    predictions,      \* the DynamoDB table of 20-Process-stock-data
    predictions0,     \* that table when its lambda_handler was invoked
    batch,            \* the event passed to that lambda_handler
    taken,            \* the number of records its loop has taken
    log,              \* what it logged for each record taken
    outcome,          \* what it returned, or that it raised
    store_result,     \* the argument of store_prediction
    put_items,        \* the items of the table store_prediction writes to
    put_items0,       \* that table when store_prediction was called
    raised,           \* the exception store_prediction raised, "" if none
    symbols,          \* the list passed to process_symbols of push_to_kinesis
    config,           \* MAX_ERRORS and TRADING_HOURS_ONLY of its environment
    errors_count,     \* errors_count of process_symbols
    position,         \* the index of the symbol its for loop is at
    pass_log,         \* what it logged for the symbols of the current pass
    outage,           \* whether the quote source and the stream are failing
    quote,            \* stock_data of the handler of 10-Push-to-Kinesis
    fetch_attempts,   \* the calls of get_stock_data it has made
    put_attempts,     \* the calls of put_to_kinesis it has made
    stream,           \* the records of the Kinesis stream
    stream0,          \* those records when the handler was invoked
    answer,           \* what the handler returned
    export_table,     \* the items of the table the export handler scans
    csv,              \* the rows of stock_data.csv in S3, <<>> when no such key
    exports,          \* the invocations of the export handler so far
    export_answer     \* what its last invocation returned

tickVars == <<historical_data, stock_data, signals, locals, analysis, vote>>

ingestVars ==
    <<table, event, history, fetched, processed_records, cursor, combined, response>>

indicatorVars == <<ind_data, indicators>>

batchVars == <<predictions, predictions0, batch, taken, log, outcome>>

storeVars == <<store_result, put_items, put_items0, raised>>

\* the variables of the functions around the two handlers
loopVars == <<symbols, config, errors_count, position, pass_log, outage>>

producerVars == <<quote, fetch_attempts, put_attempts, stream, stream0, answer>>

exportVars == <<export_table, csv, exports, export_answer>>

serviceVars == <<storeVars, loopVars, producerVars, exportVars>>

vars == <<tickVars, pc, ingestVars, indicatorVars, batchVars, serviceVars>>

-----------------------------------------------------------------------------
(* Bounds of the checked inputs *)

MaxHist == 50        \* longest history passed in (series = history + tick)
MaxDev == 2          \* a free close lies within BaseClose +- MaxDev

BaseClose == MaxDev + 3     \* the close of the constant part of a series
Closes == (BaseClose - MaxDev)..(BaseClose + MaxDev)
Spreads == {0, 1}           \* high = close + spread, low = close - spread

-----------------------------------------------------------------------------
(* Doubles as exact rationals, NaN and Inf *)

RECURSIVE GCD(_, _)
GCD(a, b) == IF b = 0 THEN a ELSE GCD(b, a % b)

Abs(x) == IF x < 0 THEN -x ELSE x

Sign(x) == IF x < 0 THEN -1 ELSE IF x > 0 THEN 1 ELSE 0

NaN == [k |-> "nan"]

Inf(s) == [k |-> "inf", s |-> s]

\* n/d in lowest terms, d > 0
Rat(n, d) ==
    LET g == GCD(Abs(n), Abs(d))
        s == IF d < 0 THEN -1 ELSE 1
    IN  [k |-> "rat", n |-> s * (n \div g), d |-> s * (d \div g)]

Num(i) == [k |-> "rat", n |-> i, d |-> 1]

IsRat(a) == a.k = "rat"

IsNaN(a) == a.k = "nan"

IsInf(a) == a.k = "inf"

\* numpy.isnan(x) or numpy.isinf(x) is false
IsFinite(a) == a.k = "rat" \/ a.k = "band"

LCM(a, b) == (a \div GCD(a, b)) * b

RNeg(a) ==
    IF IsRat(a) THEN [k |-> "rat", n |-> -a.n, d |-> a.d]
    ELSE IF IsInf(a) THEN Inf(-a.s) ELSE NaN

RAdd(a, b) ==
    IF IsNaN(a) \/ IsNaN(b) THEN NaN
    ELSE IF IsInf(a) /\ IsInf(b) THEN (IF a.s = b.s THEN a ELSE NaN)
    ELSE IF IsInf(a) THEN a
    ELSE IF IsInf(b) THEN b
    ELSE LET l == LCM(a.d, b.d)
         IN  Rat(a.n * (l \div a.d) + b.n * (l \div b.d), l)

RSub(a, b) == RAdd(a, RNeg(b))

RMul(a, b) ==
    IF IsNaN(a) \/ IsNaN(b) THEN NaN
    ELSE IF IsInf(a) \/ IsInf(b) THEN
        LET sa == IF IsInf(a) THEN a.s ELSE Sign(a.n)
            sb == IF IsInf(b) THEN b.s ELSE Sign(b.n)
        IN  IF sa * sb = 0 THEN NaN ELSE Inf(sa * sb)
    ELSE LET g1 == GCD(Abs(a.n), b.d)
             g2 == GCD(Abs(b.n), a.d)
         IN  Rat((a.n \div g1) * (b.n \div g2), (a.d \div g2) * (b.d \div g1))

\* float division as numpy/pandas do it: x/0 is +-inf, 0/0 is NaN, no exception
RDiv(a, b) ==
    IF IsNaN(a) \/ IsNaN(b) THEN NaN
    ELSE IF IsInf(b) THEN (IF IsInf(a) THEN NaN ELSE Num(0))
    ELSE IF IsInf(a) THEN Inf(a.s * (IF b.n < 0 THEN -1 ELSE 1))
    ELSE IF b.n = 0 THEN (IF a.n = 0 THEN NaN ELSE Inf(Sign(a.n)))
    ELSE RMul(a, Rat(b.d, b.n))

\* a < b; every comparison with NaN is false
RLess(a, b) ==
    IF IsNaN(a) \/ IsNaN(b) THEN FALSE
    ELSE IF IsInf(a) THEN a.s = -1 /\ ~(IsInf(b) /\ b.s = -1)
    ELSE IF IsInf(b) THEN b.s = 1
    ELSE LET l == LCM(a.d, b.d)
         IN  a.n * (l \div a.d) < b.n * (l \div b.d)

RGreater(a, b) == RLess(b, a)

\* a != b of Python: true when either side is NaN
RNotEqual(a, b) == IsNaN(a) \/ IsNaN(b) \/ a # b

RAbs(a) ==
    IF IsRat(a) THEN [k |-> "rat", n |-> Abs(a.n), d |-> a.d]
    ELSE IF IsInf(a) THEN Inf(1) ELSE NaN

\* mid + dev * sqrt(var), the square root kept symbolic
Band(mid, var, dev) ==
    IF IsRat(mid) /\ IsRat(var)
    THEN [k |-> "band", mid |-> mid, var |-> var, dev |-> dev]
    ELSE NaN

\* x > mid + dev*sqrt(var) with dev > 0
AboveBand(x, band) ==
    /\ band.k = "band"
    /\ LET dx == RSub(x, band.mid)
       IN  /\ RGreater(dx, Num(0))
           /\ RGreater(RMul(dx, dx), RMul(Num(band.dev * band.dev), band.var))

\* x < mid + dev*sqrt(var) with dev < 0
BelowBand(x, band) ==
    /\ band.k = "band"
    /\ LET dx == RSub(band.mid, x)
       IN  /\ RGreater(dx, Num(0))
           /\ RGreater(RMul(dx, dx), RMul(Num(band.dev * band.dev), band.var))

-----------------------------------------------------------------------------
(* Sequences *)

Last(s) == s[Len(s)]

Front(s) == SubSeq(s, 1, Len(s) - 1)

Min2(a, b) == IF a < b THEN a ELSE b

Max2(a, b) == IF a > b THEN a ELSE b

RECURSIVE SumInts(_, _, _)
\* xs[lo] + ... + xs[hi]
SumInts(xs, lo, hi) == IF lo > hi THEN 0 ELSE xs[hi] + SumInts(xs, lo, hi - 1)

RECURSIVE SumSquares(_, _, _)
SumSquares(xs, lo, hi) ==
    IF lo > hi THEN 0 ELSE xs[hi] * xs[hi] + SumSquares(xs, lo, hi - 1)

RECURSIVE SumRats(_, _, _)
SumRats(xs, lo, hi) ==
    IF lo > hi THEN Num(0) ELSE RAdd(SumRats(xs, lo, hi - 1), xs[hi])

RECURSIVE MinInts(_, _, _)
MinInts(xs, lo, hi) ==
    IF lo = hi THEN xs[lo] ELSE Min2(MinInts(xs, lo, hi - 1), xs[hi])

RECURSIVE MaxInts(_, _, _)
MaxInts(xs, lo, hi) ==
    IF lo = hi THEN xs[lo] ELSE Max2(MaxInts(xs, lo, hi - 1), xs[hi])

-----------------------------------------------------------------------------
(* Indicator library.  A pandas Series is read at the positions the caller *)
(* reads: index i here is series.iloc[i - 1]; a rolling window that is not *)
(* yet full gives NaN (min_periods = window).                              *)

\* calculate_ma: pd.Series(data).rolling(window=period).mean(), at index i
calculate_ma(data, period, i) ==
    IF i < period THEN NaN
    ELSE Rat(SumInts(data, i - period + 1, i), period)

\* delta.where(delta > 0, 0) and -delta.where(delta < 0, 0) at index i;
\* the first delta is NaN and where() replaces it by 0
Gain(data, i) ==
    IF i = 1 THEN 0
    ELSE IF data[i] - data[i - 1] > 0 THEN data[i] - data[i - 1] ELSE 0

Loss(data, i) ==
    IF i = 1 THEN 0
    ELSE IF data[i] - data[i - 1] < 0 THEN data[i - 1] - data[i] ELSE 0

RECURSIVE SumGain(_, _, _)
SumGain(data, lo, hi) ==
    IF lo > hi THEN 0 ELSE Gain(data, hi) + SumGain(data, lo, hi - 1)

RECURSIVE SumLoss(_, _, _)
SumLoss(data, lo, hi) ==
    IF lo > hi THEN 0 ELSE Loss(data, hi) + SumLoss(data, lo, hi - 1)

\* loss.replace(0, np.nan)
ReplaceZeroByNaN(x) == IF IsRat(x) /\ x.n = 0 THEN NaN ELSE x

\* rsi.fillna(50)
FillNa50(x) == IF IsNaN(x) THEN Num(50) ELSE x

\* rs = gain / loss; rsi = 100 - (100 / (1 + rs))
RsiOf(gain, loss) ==
    RSub(Num(100), RDiv(Num(100), RAdd(Num(1), RDiv(gain, loss))))

\* calculate_rsi, at index i
calculate_rsi(data, timeperiod, i) ==
    IF i < timeperiod THEN FillNa50(NaN)
    ELSE FillNa50(RsiOf(
            Rat(SumGain(data, i - timeperiod + 1, i), timeperiod),
            ReplaceZeroByNaN(Rat(SumLoss(data, i - timeperiod + 1, i), timeperiod))))

\* one step of ewm(span, adjust=False).mean(): alpha = 2/(span+1)
EwmStep(prev, x, span) ==
    RAdd(RMul(Rat(span - 1, span + 1), prev), RMul(Rat(2, span + 1), x))

RECURSIVE EwmFrom(_, _, _)
\* acc holds the ewm series of the first Len(acc) values; the rest is added
\* one value at a time, each from its predecessor
EwmFrom(xs, span, acc) ==
    IF Len(acc) = Len(xs) THEN acc
    ELSE EwmFrom(xs, span, Append(acc, EwmStep(Last(acc), xs[Len(acc) + 1], span)))

\* pd.Series(xs).ewm(span=span, adjust=False).mean(): it starts at xs[1]
Ewm(xs, span) == EwmFrom(xs, span, <<xs[1]>>)

ToRats(data) == [i \in 1..Len(data) |-> Num(data[i])]

\* macd = fast_ema - slow_ema
MacdLine(fast_ema, slow_ema) ==
    [i \in 1..Len(fast_ema) |-> RSub(fast_ema[i], slow_ema[i])]

\* signal = macd.ewm(span=signalperiod, adjust=False).mean()
MacdWithSignal(macd, signalperiod) ==
    [macd |-> macd, signal |-> Ewm(macd, signalperiod)]

MacdOfRats(xs, fastperiod, slowperiod, signalperiod) ==
    MacdWithSignal(MacdLine(Ewm(xs, fastperiod), Ewm(xs, slowperiod)), signalperiod)

\* calculate_macd: the macd and signal series
calculate_macd(data, fastperiod, slowperiod, signalperiod) ==
    MacdOfRats(ToRats(data), fastperiod, slowperiod, signalperiod)

\* rolling(window).std() squared (sample variance, ddof = 1), at index i
RollingVar(data, timeperiod, i) ==
    IF i < timeperiod THEN NaN
    ELSE Rat(timeperiod * SumSquares(data, i - timeperiod + 1, i)
               - SumInts(data, i - timeperiod + 1, i) * SumInts(data, i - timeperiod + 1, i),
             timeperiod * (timeperiod - 1))

\* upper = sma + rolling_std * nbdevup; lower = sma - rolling_std * nbdevdn
Bands(sma, var, nbdevup, nbdevdn) ==
    [upper |-> Band(sma, var, nbdevup), sma |-> sma, lower |-> Band(sma, var, -nbdevdn)]

\* calculate_bollinger_bands, at index i
calculate_bollinger_bands(data, timeperiod, nbdevup, nbdevdn, i) ==
    Bands(calculate_ma(data, timeperiod, i), RollingVar(data, timeperiod, i),
          nbdevup, nbdevdn)

\* 100 * (close - lowest_low) / (highest_high - lowest_low)
FastKOf(close, lowest_low, highest_high) ==
    RDiv(Num(100 * (close - lowest_low)), Num(highest_high - lowest_low))

\* fastk at index i
FastK(high, low, close, fastk_period, i) ==
    IF i < fastk_period THEN NaN
    ELSE FastKOf(close[i], MinInts(low, i - fastk_period + 1, i),
                 MaxInts(high, i - fastk_period + 1, i))

\* slowk = fastk.rolling(slowk_period).mean(), at index i
SlowK(high, low, close, fastk_period, slowk_period, i) ==
    IF i < slowk_period THEN NaN
    ELSE RDiv(SumRats([j \in (i - slowk_period + 1)..i |->
                          FastK(high, low, close, fastk_period, j)],
                      i - slowk_period + 1, i),
              Num(slowk_period))

\* slowd = slowk.rolling(slowd_period).mean(), at index i
SlowD(high, low, close, fastk_period, slowk_period, slowd_period, i) ==
    IF i < slowd_period THEN NaN
    ELSE RDiv(SumRats([j \in (i - slowd_period + 1)..i |->
                          SlowK(high, low, close, fastk_period, slowk_period, j)],
                      i - slowd_period + 1, i),
              Num(slowd_period))

\* calculate_stochastic_oscillator with its default periods, at index i
calculate_stochastic_oscillator(high, low, close, i) ==
    [slowk |-> SlowK(high, low, close, 14, 3, i),
     slowd |-> SlowD(high, low, close, 14, 3, 3, i)]

-----------------------------------------------------------------------------
(* calculate_technical_signals *)

\* x.get('timestamp', 0)
SortKey(x) == IF "timestamp" \in DOMAIN x THEN x.timestamp ELSE 0

RECURSIVE InsertSorted(_, _)
\* x placed after every element whose key is not greater (a stable sort)
InsertSorted(s, x) ==
    IF s = <<>> \/ SortKey(Last(s)) <= SortKey(x)
    THEN Append(s, x)
    ELSE Append(InsertSorted(Front(s), x), Last(s))

RECURSIVE SortFrom(_, _)
\* acc holds the first Len(acc) elements of s, sorted
SortFrom(s, acc) ==
    IF Len(acc) = Len(s) THEN acc
    ELSE SortFrom(s, InsertSorted(acc, s[Len(acc) + 1]))

\* sorted(all_data, key=lambda x: x.get('timestamp', 0))
SortByTimestamp(all_data) == SortFrom(all_data, <<>>)

\* historical_data + [{close, high, low, volume of the tick}]
AddCurrent(stock, historical) ==
    Append(historical, [close |-> stock.close, high |-> stock.high,
                        low |-> stock.low, volume |-> stock.volume])

\* the threshold of "if len(close_prices) < 30"
MinData == 30

\* variant of LastWrite: the first value written for a key is the one kept
LastWrite_First(pairs, key) ==
    CHOOSE i \in DOMAIN pairs :
        /\ pairs[i][1] = key
        /\ \A j \in DOMAIN pairs : pairs[j][1] = key => i <= j

\* the position of the last pair of a dict display that writes key
LastWrite(pairs, key) ==
    CHOOSE i \in DOMAIN pairs :
        /\ pairs[i][1] = key
        /\ \A j \in DOMAIN pairs : pairs[j][1] = key => j <= i

\* a dict display: the pairs are stored left to right, so for a key written
\* twice the later value is the one kept
DictLiteral(pairs) ==
    [key \in {pairs[i][1] : i \in DOMAIN pairs} |-> pairs[LastWrite(pairs, key)][2]]

SignalNames == <<"MA_Signal", "RSI_Signal", "MACD_Signal", "BB_Signal", "Stoch_Signal">>

NameSet == {SignalNames[i] : i \in DOMAIN SignalNames}

\* the five local *_signal variables, by the key they are returned under
Five(ma, rsi, macd, bb, stoch) ==
    [key \in NameSet |->
        CASE key = "MA_Signal" -> ma
          [] key = "RSI_Signal" -> rsi
          [] key = "MACD_Signal" -> macd
          [] key = "BB_Signal" -> bb
          [] key = "Stoch_Signal" -> stoch]

NoSignals == Five(0, 0, 0, 0, 0)

\* the names of the latest_* and prev_* locals
ValueNames ==
    {"latest_rsi", "latest_macd", "latest_signal", "prev_macd", "prev_signal",
     "latest_bb_upper", "latest_bb_middle", "latest_bb_lower",
     "latest_stoch_k", "latest_stoch_d", "prev_stoch_k", "prev_stoch_d",
     "latest_ma5", "latest_ma20", "latest_ma50", "prev_ma5", "prev_ma20",
     "latest_close"}

\* the latest_* and prev_* locals before they are assigned
NoValues == [name \in ValueNames |-> Num(0)]

\* the pairs of the dict display returned when there is not enough data
FallbackPairs(last_close, last_volume) ==
    << <<"MA_5", Num(last_close)>>,
       <<"MA_20", Num(last_close)>>,
       <<"MA_50", Num(last_close)>>,
       <<"RSI", Num(50)>>,
       <<"MACD", Num(0)>>,
       <<"MACD_Signal", Num(0)>>,
       <<"BB_Upper", RMul(Num(last_close), Rat(102, 100))>>,
       <<"BB_Lower", RMul(Num(last_close), Rat(98, 100))>>,
       <<"BB_Middle", Num(last_close)>>,
       <<"Stoch_K", Num(50)>>,
       <<"Stoch_D", Num(50)>>,
       <<"Volume", Num(last_volume)>>,
       <<"MA_Signal", Num(0)>>,
       <<"RSI_Signal", Num(0)>>,
       <<"MACD_Signal", Num(0)>>,
       <<"BB_Signal", Num(0)>>,
       <<"Stoch_Signal", Num(0)>> >>

\* variant of FallbackRecord: the RSI is computed from the partial window
FallbackRecord_PartialWindow(close_prices, volumes) ==
    [DictLiteral(FallbackPairs(Last(close_prices), Last(volumes)))
        EXCEPT !["RSI"] = calculate_rsi(close_prices, 14, Len(close_prices))]

\* the dict returned when there is not enough data
FallbackRecord(close_prices, volumes) ==
    DictLiteral(FallbackPairs(Last(close_prices), Last(volumes)))

\* the pairs of the dict display returned at the end of the function
ComputedPairs(v, sig, last_volume) ==
    << <<"MA_5", v.latest_ma5>>,
       <<"MA_20", v.latest_ma20>>,
       <<"MA_50", v.latest_ma50>>,
       <<"RSI", v.latest_rsi>>,
       <<"MACD", v.latest_macd>>,
       <<"MACD_Signal", v.latest_signal>>,
       <<"BB_Upper", v.latest_bb_upper>>,
       <<"BB_Lower", v.latest_bb_lower>>,
       <<"BB_Middle", v.latest_bb_middle>>,
       <<"Stoch_K", v.latest_stoch_k>>,
       <<"Stoch_D", v.latest_stoch_d>>,
       <<"Volume", Num(last_volume)>>,
       <<"MA_Signal", Num(sig["MA_Signal"])>>,
       <<"RSI_Signal", Num(sig["RSI_Signal"])>>,
       <<"MACD_Signal", Num(sig["MACD_Signal"])>>,
       <<"BB_Signal", Num(sig["BB_Signal"])>>,
       <<"Stoch_Signal", Num(sig["Stoch_Signal"])>> >>

\* the dict returned at the end of the function
ComputedRecord(v, sig, volumes) ==
    DictLiteral(ComputedPairs(v, sig, Last(volumes)))

\* the latest and previous values read off the indicator series:
\* m the MACD series, bb the bands at n, st and stp the stochastic at n, n-1
ReadValues(close_prices, n, m, bb, st, stp) ==
    [latest_rsi |-> calculate_rsi(close_prices, 14, n),
     latest_macd |-> m.macd[n],
     latest_signal |-> m.signal[n],
     prev_macd |-> IF n > 1 THEN m.macd[n - 1] ELSE m.macd[n],
     prev_signal |-> IF n > 1 THEN m.signal[n - 1] ELSE m.signal[n],
     latest_bb_upper |-> bb.upper,
     latest_bb_middle |-> bb.sma,
     latest_bb_lower |-> bb.lower,
     latest_stoch_k |-> st.slowk,
     latest_stoch_d |-> st.slowd,
     prev_stoch_k |-> IF n > 1 THEN stp.slowk ELSE st.slowk,
     prev_stoch_d |-> IF n > 1 THEN stp.slowd ELSE st.slowd,
     latest_ma5 |-> calculate_ma(close_prices, 5, n),
     latest_ma20 |-> calculate_ma(close_prices, 20, n),
     latest_ma50 |-> IF n > 1 THEN calculate_ma(close_prices, 50, n)
                     ELSE calculate_ma(close_prices, 20, n),
     prev_ma5 |-> IF n > 1 THEN calculate_ma(close_prices, 5, n - 1)
                  ELSE calculate_ma(close_prices, 5, n),
     prev_ma20 |-> IF n > 1 THEN calculate_ma(close_prices, 20, n - 1)
                   ELSE calculate_ma(close_prices, 20, n),
     latest_close |-> Num(close_prices[n])]

\* "Calculate technical indicators"
IndicatorValues(close_prices, high_prices, low_prices) ==
    ReadValues(close_prices, Len(close_prices),
        calculate_macd(close_prices, 12, 26, 9),
        calculate_bollinger_bands(close_prices, 20, 2, 2, Len(close_prices)),
        calculate_stochastic_oscillator(high_prices, low_prices, close_prices,
                                        Len(close_prices)),
        calculate_stochastic_oscillator(high_prices, low_prices, close_prices,
                                        Len(close_prices) - 1))

\* "Generate signals for each indicator": the five signals before filtering
RawSignals(v) ==
    Five(
        \* ma_signal
        IF RLess(v.prev_ma5, v.prev_ma20) /\ RGreater(v.latest_ma5, v.latest_ma20) THEN 1
        ELSE IF RGreater(v.prev_ma5, v.prev_ma20) /\ RLess(v.latest_ma5, v.latest_ma20) THEN -1
        ELSE 0,
        \* rsi_signal
        IF RGreater(v.latest_rsi, Num(70)) THEN -1
        ELSE IF RLess(v.latest_rsi, Num(30)) THEN 1
        ELSE 0,
        \* macd_signal
        IF RLess(v.prev_macd, v.prev_signal) /\ RGreater(v.latest_macd, v.latest_signal) THEN 1
        ELSE IF RGreater(v.prev_macd, v.prev_signal) /\ RLess(v.latest_macd, v.latest_signal) THEN -1
        ELSE 0,
        \* bb_signal
        IF AboveBand(v.latest_close, v.latest_bb_upper) THEN -1
        ELSE IF BelowBand(v.latest_close, v.latest_bb_lower) THEN 1
        ELSE 0,
        \* stoch_signal
        IF /\ RLess(v.prev_stoch_k, v.prev_stoch_d)
           /\ RGreater(v.latest_stoch_k, v.latest_stoch_d)
           /\ RLess(v.latest_stoch_k, Num(20)) THEN 1
        ELSE IF /\ RGreater(v.prev_stoch_k, v.prev_stoch_d)
                /\ RLess(v.latest_stoch_k, v.latest_stoch_d)
                /\ RGreater(v.latest_stoch_k, Num(80)) THEN -1
        ELSE 0)

\* variant of TrendDirection: up when the latest close is below the MA
TrendDirection_Inverted(latest_close, latest_ma50) ==
    IF RLess(latest_close, latest_ma50) THEN 1 ELSE -1

\* trend_direction = 1 if latest_close > latest_ma50 else -1
TrendDirection(latest_close, latest_ma50) ==
    IF RGreater(latest_close, latest_ma50) THEN 1 ELSE -1

\* variant of TrendFilter: only the MA cross is filtered by the trend
TrendFilter_OnlyMA(sig, trend_direction) ==
    IF trend_direction = 1
    THEN [sig EXCEPT !["MA_Signal"] = IF @ = -1 THEN 0 ELSE @]
    ELSE [sig EXCEPT !["MA_Signal"] = IF @ = 1 THEN 0 ELSE @]

\* variant of TrendFilter: the signals that agree with the trend are ignored
TrendFilter_Against(sig, trend_direction) ==
    IF trend_direction = 1
    THEN [key \in DOMAIN sig |-> IF sig[key] = 1 THEN 0 ELSE sig[key]]
    ELSE [key \in DOMAIN sig |-> IF sig[key] = -1 THEN 0 ELSE sig[key]]

\* "Apply trend filtering"
TrendFilter(sig, trend_direction) ==
    IF trend_direction = 1
    THEN [key \in DOMAIN sig |-> IF sig[key] = -1 THEN 0 ELSE sig[key]]
    ELSE [key \in DOMAIN sig |-> IF sig[key] = 1 THEN 0 ELSE sig[key]]

\* the return of the function: the dict, and the locals it was built from
Return(all_data, v, raw, trend_direction, post, volumes) ==
    [ret |-> ComputedRecord(v, post, volumes),
     locals |-> [branch |-> "computed", all_data |-> all_data, raw |-> raw,
                 trend_direction |-> trend_direction, post |-> post,
                 latest_signal |-> v.latest_signal, v |-> v]]

\* lines 200-245: trend_direction, the filter, the return
FilterAndReturn(all_data, v, raw, trend_direction, volumes) ==
    Return(all_data, v, raw, trend_direction, TrendFilter(raw, trend_direction), volumes)

\* lines 163-245
SignalsOf(all_data, v, volumes) ==
    FilterAndReturn(all_data, v, RawSignals(v),
                    TrendDirection(v.latest_close, v.latest_ma50), volumes)

\* lines 106-245
FromColumns(all_data, close_prices, high_prices, low_prices, volumes) ==
    IF Len(close_prices) < MinData
    THEN [ret |-> FallbackRecord(close_prices, volumes),
          locals |-> [branch |-> "fallback", all_data |-> all_data,
                      raw |-> NoSignals, trend_direction |-> 0,
                      post |-> NoSignals, latest_signal |-> Num(0),
                      v |-> NoValues]]
    ELSE SignalsOf(all_data, IndicatorValues(close_prices, high_prices, low_prices),
                   volumes)

\* "Extract time series data"
FromSeries(all_data) ==
    FromColumns(all_data,
        [i \in 1..Len(all_data) |-> all_data[i].close],
        [i \in 1..Len(all_data) |-> all_data[i].high],
        [i \in 1..Len(all_data) |-> all_data[i].low],
        [i \in 1..Len(all_data) |-> all_data[i].volume])

\* the function: its returned dict (ret) and its locals at the return
calculate_technical_signals(stock, historical) ==
    FromSeries(SortByTimestamp(AddCurrent(stock, historical)))

-----------------------------------------------------------------------------
(* analyze_signals *)

\* the weights dict, in its iteration order
Weights ==
    << <<"MA_Signal", Rat(3, 10)>>,
       <<"RSI_Signal", Rat(2, 10)>>,
       <<"MACD_Signal", Rat(2, 10)>>,
       <<"BB_Signal", Rat(15, 100)>>,
       <<"Stoch_Signal", Rat(15, 100)>> >>

\* signals.get(signal, 0)
GetOrZero(d, key) == IF key \in DOMAIN d THEN d[key] ELSE Num(0)

\* variant of BuyThreshold: the coarser threshold of 0.5
BuyThreshold_Coarse == Rat(5, 10)

\* the decision threshold 0.3
BuyThreshold == Rat(3, 10)

\* the body of the loop over the weights
VoteStep(acc, signal_value, weight) ==
    IF RNotEqual(signal_value, Num(0))
    THEN [score |-> RAdd(acc.score, RMul(signal_value, weight)),
          total_weight |-> RAdd(acc.total_weight, weight)]
    ELSE acc

RECURSIVE VoteLoop(_, _)
\* score and total_weight after the first i weights
VoteLoop(d, i) ==
    IF i = 0 THEN [score |-> Num(0), total_weight |-> Num(0)]
    ELSE VoteStep(VoteLoop(d, i - 1), GetOrZero(d, Weights[i][1]), Weights[i][2])

\* variant of Decide: a score on the threshold already decides
Decide_Inclusive(score, total_weight) ==
    IF RGreater(total_weight, Num(0))
    THEN IF ~RLess(score, BuyThreshold) THEN "BUY"
         ELSE IF ~RGreater(score, RNeg(BuyThreshold)) THEN "SELL"
         ELSE "HOLD"
    ELSE "HOLD"

\* final_signal from score and total_weight
Decide(score, total_weight) ==
    IF RGreater(total_weight, Num(0))
    THEN IF RGreater(score, BuyThreshold) THEN "BUY"
         ELSE IF RLess(score, RNeg(BuyThreshold)) THEN "SELL"
         ELSE "HOLD"
    ELSE "HOLD"

\* variant of Confidence: |score| normalised by the weight that voted
Confidence_Normalized(score, total_weight) ==
    IF RGreater(total_weight, Num(0)) THEN RDiv(RAbs(score), total_weight) ELSE Num(0)

\* confidence = abs(score) if total_weight > 0 else 0
Confidence(score, total_weight) ==
    IF RGreater(total_weight, Num(0)) THEN RAbs(score) ELSE Num(0)

\* the returned dict (ret) and the locals score and total_weight
Verdict(acc) ==
    [ret |-> [signal |-> Decide(acc.score, acc.total_weight),
              confidence |-> Confidence(acc.score, acc.total_weight)],
     locals |-> acc]

analyze_signals(d) == Verdict(VoteLoop(d, Len(Weights)))

-----------------------------------------------------------------------------
(* src/lambda_function.py: calculate_indicators.  A TA-Lib function returns *)
(* NaN at every position before its lookback is filled; the value read is   *)
(* the last one, [-1].                                                       *)

MA_PERIODS == <<5, 20, 50>>

RSI_PERIOD == 14

MACD_FAST == 12

MACD_SLOW == 26

MACD_SIGNAL == 9

BBANDS_PERIOD == 20

BBANDS_STDDEV == 2

\* FIB_LEVELS, with the key each level is stored under
FIB_LEVELS ==
    << <<"Fib_0.236", Rat(236, 1000)>>, <<"Fib_0.382", Rat(382, 1000)>>,
       <<"Fib_0.5", Rat(5, 10)>>, <<"Fib_0.618", Rat(618, 1000)>>,
       <<"Fib_0.786", Rat(786, 1000)>> >>

STOCH_K == 14

STOCH_D == 3

\* np.min / np.max
SetMin(S) == CHOOSE x \in S : \A y \in S : x <= y

SetMax(S) == CHOOSE x \in S : \A y \in S : x >= y

\* talib.SMA(prices, timeperiod)[-1]
TA_SMA(prices, timeperiod) ==
    IF Len(prices) < timeperiod THEN NaN
    ELSE Rat(SumInts(prices, Len(prices) - timeperiod + 1, Len(prices)), timeperiod)

\* Wilder's smoothing: (previous * (period - 1) + x) / period
WilderStep(prev, x, period) ==
    RDiv(RAdd(RMul(prev, Num(period - 1)), Num(x)), Num(period))

RECURSIVE WilderFrom(_, _, _)
\* acc holds the smoothed gain and loss at position acc.i
WilderFrom(prices, period, acc) ==
    IF acc.i = Len(prices) THEN acc
    ELSE WilderFrom(prices, period,
            [i |-> acc.i + 1,
             gain |-> WilderStep(acc.gain, Gain(prices, acc.i + 1), period),
             loss |-> WilderStep(acc.loss, Loss(prices, acc.i + 1), period)])

\* 100 * gain / (gain + loss), and 0 when there was no move at all
RsiValue(gain, loss) ==
    IF RAdd(gain, loss) = Num(0) THEN Num(0)
    ELSE RMul(Num(100), RDiv(gain, RAdd(gain, loss)))

RsiOfSmoothed(acc) == RsiValue(acc.gain, acc.loss)

\* talib.RSI(prices, timeperiod)[-1]: the lookback is timeperiod, so the
\* first value needs timeperiod + 1 prices
TA_RSI(prices, timeperiod) ==
    IF Len(prices) <= timeperiod THEN NaN
    ELSE RsiOfSmoothed(WilderFrom(prices, timeperiod,
            [i |-> timeperiod + 1,
             gain |-> Rat(SumGain(prices, 2, timeperiod + 1), timeperiod),
             loss |-> Rat(SumLoss(prices, 2, timeperiod + 1), timeperiod)]))

\* the MACD state after one more price: both EMAs advance, the signal line
\* is the mean of the first signalperiod MACD values and an EMA from then on
MacdAdvance(i, fast, slow, sum, sig, first, signalperiod) ==
    [i |-> i, fast |-> fast, slow |-> slow,
     sum |-> IF i < first + signalperiod THEN RAdd(sum, RSub(fast, slow)) ELSE sum,
     sig |-> IF i < first + signalperiod - 1 THEN NaN
             ELSE IF i = first + signalperiod - 1
                  THEN RDiv(RAdd(sum, RSub(fast, slow)), Num(signalperiod))
                  ELSE EwmStep(sig, RSub(fast, slow), signalperiod)]

RECURSIVE MacdFrom(_, _, _, _, _, _)
\* acc holds both EMAs and the signal line at position acc.i
MacdFrom(prices, fastperiod, slowperiod, signalperiod, first, acc) ==
    IF acc.i = Len(prices) THEN acc
    ELSE MacdFrom(prices, fastperiod, slowperiod, signalperiod, first,
            MacdAdvance(acc.i + 1,
                EwmStep(acc.fast, Num(prices[acc.i + 1]), fastperiod),
                EwmStep(acc.slow, Num(prices[acc.i + 1]), slowperiod),
                acc.sum, acc.sig, first, signalperiod))

\* macd, macdsignal, macdhist read off the state at the last position
MacdOutputs(acc) ==
    [macd |-> RSub(acc.fast, acc.slow), signal |-> acc.sig,
     hist |-> RSub(RSub(acc.fast, acc.slow), acc.sig)]

\* talib.MACD(...)[-1]: both EMAs are seeded at position slowperiod with the
\* simple average of the prices before it (the last fastperiod, slowperiod
\* of them); the lookback is slowperiod - 1 + signalperiod - 1
TA_MACD(prices, fastperiod, slowperiod, signalperiod) ==
    IF Len(prices) < slowperiod + signalperiod - 1
    THEN [macd |-> NaN, signal |-> NaN, hist |-> NaN]
    ELSE MacdOutputs(MacdFrom(prices, fastperiod, slowperiod, signalperiod, slowperiod,
            MacdAdvance(slowperiod,
                Rat(SumInts(prices, slowperiod - fastperiod + 1, slowperiod), fastperiod),
                Rat(SumInts(prices, 1, slowperiod), slowperiod),
                Num(0), NaN, slowperiod, signalperiod)))

\* the population variance of the last timeperiod prices
TA_VAR(prices, timeperiod) ==
    Rat(timeperiod * SumSquares(prices, Len(prices) - timeperiod + 1, Len(prices))
          - SumInts(prices, Len(prices) - timeperiod + 1, Len(prices))
              * SumInts(prices, Len(prices) - timeperiod + 1, Len(prices)),
        timeperiod * timeperiod)

\* talib.BBANDS(prices, timeperiod, nbdevup, nbdevdn, matype=0)[-1]
TA_BBANDS(prices, timeperiod, nbdevup, nbdevdn) ==
    IF Len(prices) < timeperiod
    THEN [upperband |-> NaN, middleband |-> NaN, lowerband |-> NaN]
    ELSE [upperband |-> Band(TA_SMA(prices, timeperiod), TA_VAR(prices, timeperiod), nbdevup),
          middleband |-> TA_SMA(prices, timeperiod),
          lowerband |-> Band(TA_SMA(prices, timeperiod), TA_VAR(prices, timeperiod), -nbdevdn)]

\* fast %K at position i: 0 when the highest high equals the lowest low
TaFastK(high, low, close, fastk_period, i) ==
    IF SetMax({high[j] : j \in (i - fastk_period + 1)..i})
         = SetMin({low[j] : j \in (i - fastk_period + 1)..i})
    THEN Num(0)
    ELSE Rat(100 * (close[i] - SetMin({low[j] : j \in (i - fastk_period + 1)..i})),
             SetMax({high[j] : j \in (i - fastk_period + 1)..i})
               - SetMin({low[j] : j \in (i - fastk_period + 1)..i}))

\* slow %K at position i: the simple average of the last slowk_period fast %K
TaSlowK(high, low, close, fastk_period, slowk_period, i) ==
    RDiv(SumRats([j \in (i - slowk_period + 1)..i |->
                     TaFastK(high, low, close, fastk_period, j)],
                 i - slowk_period + 1, i),
         Num(slowk_period))

\* talib.STOCH(...)[-1] with simple averages: the lookback is
\* fastk_period - 1 + slowk_period - 1 + slowd_period - 1
TA_STOCH(high, low, close, fastk_period, slowk_period, slowd_period) ==
    IF Len(close) < fastk_period + slowk_period + slowd_period - 2
    THEN [slowk |-> NaN, slowd |-> NaN]
    ELSE [slowk |-> TaSlowK(high, low, close, fastk_period, slowk_period, Len(close)),
          slowd |-> RDiv(SumRats([j \in (Len(close) - slowd_period + 1)..Len(close) |->
                                     TaSlowK(high, low, close, fastk_period, slowk_period, j)],
                                 Len(close) - slowd_period + 1, Len(close)),
                         Num(slowd_period))]

\* Decimal(str(x)) of a float: the same number, Decimal('NaN') for nan
ToDecimal(x) == x

\* the MA entries: one per period of MA_PERIODS
MaPairs(prices) ==
    [i \in DOMAIN MA_PERIODS |->
        <<IF MA_PERIODS[i] = 5 THEN "MA5" ELSE IF MA_PERIODS[i] = 20 THEN "MA20" ELSE "MA50",
          IF Len(prices) >= MA_PERIODS[i]
          THEN ToDecimal(TA_SMA(prices, MA_PERIODS[i])) ELSE Num(0)>>]

RsiPairs(prices) ==
    << <<"RSI", IF Len(prices) >= RSI_PERIOD
                THEN ToDecimal(TA_RSI(prices, RSI_PERIOD)) ELSE Num(0)>> >>

MacdPairsOf(prices, m) ==
    IF Len(prices) >= MACD_SLOW + MACD_SIGNAL - 1
    THEN << <<"MACD", ToDecimal(m.macd)>>, <<"Signal", ToDecimal(m.signal)>>,
            <<"Hist", ToDecimal(m.hist)>> >>
    ELSE << <<"MACD", Num(0)>>, <<"Signal", Num(0)>>, <<"Hist", Num(0)>> >>

MacdPairs(prices) ==
    MacdPairsOf(prices, TA_MACD(prices, MACD_FAST, MACD_SLOW, MACD_SIGNAL))

BbPairsOf(prices, b) ==
    IF Len(prices) >= BBANDS_PERIOD
    THEN << <<"BB_Upper", ToDecimal(b.upperband)>>, <<"BB_Middle", ToDecimal(b.middleband)>>,
            <<"BB_Lower", ToDecimal(b.lowerband)>> >>
    ELSE << <<"BB_Upper", Num(0)>>, <<"BB_Middle", Num(0)>>, <<"BB_Lower", Num(0)>> >>

BbPairs(prices) ==
    BbPairsOf(prices, TA_BBANDS(prices, BBANDS_PERIOD, BBANDS_STDDEV, BBANDS_STDDEV))

StochPairsOf(prices, st) ==
    IF Len(prices) >= STOCH_K
    THEN << <<"Stoch_K", ToDecimal(st.slowk)>>, <<"Stoch_D", ToDecimal(st.slowd)>> >>
    ELSE << <<"Stoch_K", Num(0)>>, <<"Stoch_D", Num(0)>> >>

StochPairs(prices) ==
    StochPairsOf(prices, TA_STOCH(prices, prices, prices, STOCH_K, STOCH_D, STOCH_D))

\* the Fibonacci levels between the high and the low of the last 100 prices
FibPairsOf(high, low) ==
    [i \in DOMAIN FIB_LEVELS |->
        <<FIB_LEVELS[i][1],
          ToDecimal(RSub(Num(high), RMul(Num(high - low), FIB_LEVELS[i][2])))>>]

FibPairs(prices) ==
    FibPairsOf(SetMax({prices[j] : j \in Max2(1, Len(prices) - 99)..Len(prices)}),
               SetMin({prices[j] : j \in Max2(1, Len(prices) - 99)..Len(prices)}))

\* the assignments to indicators[...], in the order they are made
IndicatorPairs(prices, volumes) ==
    MaPairs(prices) \o RsiPairs(prices) \o MacdPairs(prices) \o BbPairs(prices)
        \o StochPairs(prices) \o << <<"Volume", ToDecimal(Num(Last(volumes)))>> >>
        \o FibPairs(prices)

\* calculate_indicators: {} for an empty list
calculate_indicators(items) ==
    IF items = <<>> THEN [key \in {} |-> Num(0)]
    ELSE DictLiteral(IndicatorPairs([i \in DOMAIN items |-> items[i].price],
                                    [i \in DOMAIN items |-> items[i].volume]))

-----------------------------------------------------------------------------
(* src/lambda_function.py: the table, process_record and lambda_handler.     *)
(* An item is a record with the fields stock_symbol, timestamp, price and    *)
(* volume (integers for the Decimals); the 'datetime' string, which nothing  *)
(* reads, is not kept.                                                       *)

\* max(max(MA_PERIODS), MACD_SLOW + MACD_SIGNAL - 1, BBANDS_PERIOD, STOCH_K, 100)
required_points ==
    SetMax({SetMax({MA_PERIODS[i] : i \in DOMAIN MA_PERIODS}),
            MACD_SLOW + MACD_SIGNAL - 1, BBANDS_PERIOD, STOCH_K, 100})

\* element i comes before element j in a stable sort on keys
Before(keys, i, j) == keys[i] < keys[j] \/ (keys[i] = keys[j] /\ i < j)

\* the position each element takes in the sorted list
Ranks(keys) ==
    [j \in DOMAIN keys |-> Cardinality({i \in DOMAIN keys : Before(keys, i, j)}) + 1]

Place(s, ranks) ==
    IF ranks = <<>> THEN <<>>
    ELSE [p \in DOMAIN s |-> s[CHOOSE j \in DOMAIN s : ranks[j] = p]]

\* sorted(s, key=...) for the keys given
SortedBy(s, keys) == Place(s, Ranks(keys))

\* sorted(s, key=lambda x: x['timestamp'])
SortedOnTimestamp(s) == SortedBy(s, [i \in DOMAIN s |-> s[i].timestamp])

\* s[:n], which keeps the oldest of an ascending list
LastN_Oldest(s, n) == SubSeq(s, 1, Min2(n, Len(s)))

\* s[-n:]
LastN(s, n) == SubSeq(s, Max2(1, Len(s) - n + 1), Len(s))

\* s[:n]
FirstN(s, n) == SubSeq(s, 1, Min2(n, Len(s)))

\* the items in descending order of timestamp
LatestFirst(s) == SortedBy(s, [i \in DOMAIN s |-> -s[i].timestamp])

\* table.query(stock_symbol = ..., ScanIndexForward=False, Limit=...):
\* the items of the symbol, latest timestamp first, at most Limit of them
Query(tbl, stock_symbol, Limit) ==
    FirstN(LatestFirst(SelectSeq(tbl, LAMBDA x : x.stock_symbol = stock_symbol)), Limit)

\* two items with the same primary key (stock_symbol, timestamp)
SameKey(a, b) == a.stock_symbol = b.stock_symbol /\ a.timestamp = b.timestamp

\* table.put_item(Item=item): an item with the same key is replaced
PutItem(tbl, item) ==
    IF \E i \in DOMAIN tbl : SameKey(tbl[i], item)
    THEN [i \in DOMAIN tbl |-> IF SameKey(tbl[i], item) THEN item ELSE tbl[i]]
    ELSE Append(tbl, item)

\* time.time(), the fallback for a payload without a timestamp
Clock == required_points + 3

\* the payload decodes to an object with the fields process_record reads
Decodes(payload) == {"stock_symbol", "price", "volume"} \subseteq DOMAIN payload

\* lines 197-202: the data dict before the indicators are added
DataOf(payload) ==
    [stock_symbol |-> payload.stock_symbol,
     timestamp |-> IF "timestamp" \in DOMAIN payload THEN payload.timestamp ELSE Clock,
     price |-> payload.price,
     volume |-> payload.volume]

\* dict.update
Update(d, e) ==
    [key \in DOMAIN d \cup DOMAIN e |-> IF key \in DOMAIN e THEN e[key] ELSE d[key]]

\* float(x) != 0.0 for an indicator value
NonZeroValue(x) ==
    IF x.k = "band"
    THEN ~(/\ RMul(x.mid, x.mid) = RMul(Num(x.dev * x.dev), x.var)
           /\ Sign(x.mid.n) = -Sign(x.dev) * (IF x.var.n = 0 THEN 0 ELSE 1))
    ELSE RNotEqual(x, Num(0))

\* float(data[key]) != 0.0
NonZero(data, key) ==
    IF key = "price" THEN data[key] # 0 ELSE NonZeroValue(data[key])

required_indicators ==
    {"price", "Volume", "MA5", "MA20", "MA50", "RSI", "MACD", "Signal",
     "BB_Upper", "BB_Middle", "BB_Lower", "Stoch_K", "Stoch_D"}
        \cup {FIB_LEVELS[i][1] : i \in DOMAIN FIB_LEVELS}

\* what the endpoint call gives: an exception or a prediction value
EndpointError == [k |-> "error"]

\* the strings "ERROR" and "SKIPPED" returned in place of a prediction
Error == [k |-> "ERROR"]

Skipped == [k |-> "SKIPPED"]

EndpointReplies == {EndpointError, Rat(9, 10), Rat(1, 10)}

\* invoke_sagemaker_endpoint: "SKIPPED" unless every required indicator is
\* present and non-zero, else what the endpoint call gives
invoke_sagemaker_endpoint(data, reply) ==
    IF \A key \in required_indicators : key \in DOMAIN data /\ NonZero(data, key)
    THEN (IF reply = EndpointError THEN Error ELSE reply)
    ELSE Skipped

\* lines 209-211
WithPrediction(data, prediction) ==
    IF prediction \notin {Error, Skipped}
    THEN Update(data, [prediction |-> IF RGreater(prediction, Rat(5, 10)) THEN "UP" ELSE "DOWN",
                       prediction_value |-> ToDecimal(prediction)])
    ELSE data

\* the keys of data whose values are not indicator values
PlainKeys == {"stock_symbol", "timestamp", "price", "volume", "prediction"}

\* the serializer of put_item refuses a Decimal NaN or Infinity
Storable(data) == \A key \in DOMAIN data \ PlainKeys : IsFinite(data[key])

\* write_to_dynamodb: the item is put, or the error is logged and dropped
write_to_dynamodb(tbl, data, put_ok) ==
    IF put_ok /\ Storable(data) THEN PutItem(tbl, data) ELSE tbl

\* lines 204-214 for the data dict with its indicators
PredictAndWrite(tbl, data, reply, put_ok) ==
    [ret |-> WithPrediction(data, invoke_sagemaker_endpoint(data, reply)),
     table |-> write_to_dynamodb(tbl, WithPrediction(data, invoke_sagemaker_endpoint(data, reply)),
                                 put_ok)]

\* the items passed to calculate_indicators: historical_data + [data]
Combined(payload, historical) == Append(historical, DataOf(payload))

\* lines 190-205: the data dict with its indicators; a payload that cannot
\* be processed raises (<<>>)
Indicated(payload, historical) ==
    IF ~Decodes(payload) THEN <<>>
    ELSE Update(DataOf(payload), calculate_indicators(Combined(payload, historical)))

\* lines 207-218: ret is the data dict, or None (<<>>) with nothing written
\* when the lines before raised
Concluded(data, tbl, reply, put_ok) ==
    IF data = <<>> THEN [ret |-> <<>>, table |-> tbl]
    ELSE PredictAndWrite(tbl, data, reply, put_ok)

process_record(payload, historical, tbl, reply, put_ok) ==
    Concluded(Indicated(payload, historical), tbl, reply, put_ok)

-----------------------------------------------------------------------------
(* The evaluation of one tick: lines 373-374 of lambda_handler *)

\* a bar of the series: low <= close <= high, volume a non-negative integer
Bar(close, spread, volume) ==
    [close |-> close, high |-> close + spread, low |-> close - spread,
     volume |-> volume]

Stamped(bar, ts) ==
    [timestamp |-> ts, close |-> bar.close, high |-> bar.high,
     low |-> bar.low, volume |-> bar.volume]

\* the close of bar i of a history of m bars
HistoryClose(i, m, hasTs, a, b) ==
    IF hasTs THEN (IF i = m THEN b ELSE IF i = m - 1 THEN a ELSE BaseClose)
    ELSE (IF i = m THEN a ELSE BaseClose)

\* A history of m bars, oldest first.  All closes are BaseClose but the
\* latest ones: without timestamps the last bar closes at a (the tick then
\* follows it in the series); with timestamps the last two close at a and b
\* (the tick, having no timestamp, sorts before them).
History(m, hasTs, a, b, spread) ==
    [i \in 1..m |->
        IF hasTs THEN Stamped(Bar(HistoryClose(i, m, hasTs, a, b), spread, i), i)
        ELSE Bar(HistoryClose(i, m, hasTs, a, b), spread, i)]

\* the history lengths checked: the shortest, those around the minimum-data
\* threshold and those up to MaxHist (around the 50-period window)
HistLens == (0..2) \cup ((MinData - 3)..(MinData + 1)) \cup ((MaxHist - 3)..MaxHist)

NoDict == [key \in {} |-> Num(0)]

NoLocals ==
    [branch |-> "none", all_data |-> <<>>, raw |-> NoSignals,
     trend_direction |-> 0, post |-> NoSignals, latest_signal |-> Num(0),
     v |-> NoValues]

NoAnalysis == [signal |-> "NONE", confidence |-> Num(0)]

NoVote == [score |-> Num(0), total_weight |-> Num(0)]

NoResponse == [statusCode |-> 0]

\* the handler of src/lambda_function.py has not been invoked
IngestIdle ==
    /\ table = <<>>
    /\ event = [Records |-> <<>>]
    /\ history = <<>>
    /\ fetched = <<>>
    /\ processed_records = <<>>
    /\ cursor = 0
    /\ combined = <<>>
    /\ response = NoResponse

\* the handler of 20-Process-stock-data has not been invoked
BatchIdle ==
    /\ predictions = <<>>
    /\ predictions0 = <<>>
    /\ batch = [Records |-> <<>>]
    /\ taken = 0
    /\ log = <<>>
    /\ outcome = NoResponse

\* store_prediction has not been called
StoreIdle ==
    /\ store_result = [k |-> "none"]
    /\ put_items = <<>>
    /\ put_items0 = <<>>
    /\ raised = ""

\* process_symbols has not been called
LoopIdle ==
    /\ symbols = <<>>
    /\ config = [MAX_ERRORS |-> 1, TRADING_HOURS_ONLY |-> FALSE]
    /\ errors_count = 0
    /\ position = 0
    /\ pass_log = <<>>
    /\ outage = FALSE

\* the handler of 10-Push-to-Kinesis has not been invoked
ProducerIdle ==
    /\ quote = [stock_symbol |-> ""]
    /\ fetch_attempts = 0
    /\ put_attempts = 0
    /\ stream = <<>>
    /\ stream0 = <<>>
    /\ answer = NoResponse

\* the export handler has not been invoked
ExportIdle ==
    /\ export_table = <<>>
    /\ csv = <<>>
    /\ exports = 0
    /\ export_answer = NoResponse

ServicesIdle == StoreIdle /\ LoopIdle /\ ProducerIdle /\ ExportIdle

\* calculate_indicators has not been called
IndicatorsIdle == ind_data = <<>> /\ indicators = NoDict

\* no tick is being evaluated
TickIdle ==
    /\ historical_data = <<>>
    /\ stock_data = Bar(BaseClose, 0, 0)
    /\ signals = NoDict
    /\ locals = NoLocals
    /\ analysis = NoAnalysis
    /\ vote = NoVote

Init ==
    /\ \E m \in HistLens, hasTs \in BOOLEAN, a \in Closes, b \in Closes,
          t \in Closes, spread \in Spreads :
          /\ ~hasTs => b = BaseClose
          /\ (hasTs /\ m + 1 >= MinData) => t = BaseClose
          /\ historical_data = History(m, hasTs, a, b, spread)
          /\ stock_data = Bar(t, spread, 0)
    /\ signals = NoDict
    /\ locals = NoLocals
    /\ analysis = NoAnalysis
    /\ vote = NoVote
    /\ pc = "start"
    /\ IngestIdle
    /\ IndicatorsIdle
    /\ BatchIdle
    /\ ServicesIdle

\* signals = calculate_technical_signals(stock_data_formatted, historical_data)
CalculateTechnicalSignals ==
    /\ pc = "start"
    /\ \E r \in {calculate_technical_signals(stock_data, historical_data)} :
          /\ signals' = r.ret
          /\ locals' = r.locals
    /\ pc' = "calculated"
    /\ UNCHANGED <<historical_data, stock_data, analysis, vote>>
    /\ UNCHANGED <<ingestVars, indicatorVars, batchVars>>
    /\ UNCHANGED serviceVars

\* signal_analysis = analyze_signals(signals)
AnalyzeSignals ==
    /\ pc = "calculated"
    /\ \E r \in {analyze_signals(signals)} :
          /\ analysis' = r.ret
          /\ vote' = r.locals
    /\ pc' = "analyzed"
    /\ UNCHANGED <<historical_data, stock_data, signals, locals>>
    /\ UNCHANGED <<ingestVars, indicatorVars, batchVars>>
    /\ UNCHANGED serviceVars

Next == CalculateTechnicalSignals \/ AnalyzeSignals

Spec == Init /\ [][Next]_vars

-----------------------------------------------------------------------------
(* analyze_signals on its own, over every ternary assignment *)

Ternary == {Num(-1), Num(0), Num(1)}

InitVote ==
    /\ signals \in [NameSet -> Ternary]
    /\ historical_data = <<>>
    /\ stock_data = Bar(BaseClose, 0, 0)
    /\ locals = NoLocals
    /\ analysis = NoAnalysis
    /\ vote = NoVote
    /\ pc = "calculated"
    /\ IngestIdle
    /\ IndicatorsIdle
    /\ BatchIdle
    /\ ServicesIdle

NextVote == AnalyzeSignals

SpecVote == InitVote /\ [][NextVote]_vars

-----------------------------------------------------------------------------
(* calculate_indicators of src/lambda_function.py on its own *)

\* the list lengths checked: every length up to one past the longest
\* period of MA_PERIODS
PriceLens == 0..(SetMax({MA_PERIODS[i] : i \in DOMAIN MA_PERIODS}) + 1)

\* an item of the list: the fields calculate_indicators reads
PriceItem(price, volume) == [price |-> price, volume |-> volume]

\* n items at BaseClose, the last two at a and b
PriceList(n, a, b) ==
    [i \in 1..n |->
        PriceItem(IF i = n THEN b ELSE IF i = n - 1 THEN a ELSE BaseClose, i)]

InitIndicators ==
    /\ \E n \in PriceLens, a \in Closes, b \in Closes :
          /\ n < 2 => a = BaseClose
          /\ n < 1 => b = BaseClose
          /\ ind_data = PriceList(n, a, b)
    /\ indicators = NoDict
    /\ pc = "call"
    /\ TickIdle
    /\ IngestIdle
    /\ BatchIdle
    /\ ServicesIdle

\* indicators = calculate_indicators(data)
CalculateIndicators ==
    /\ pc = "call"
    /\ indicators' = calculate_indicators(ind_data)
    /\ pc' = "called"
    /\ UNCHANGED <<ind_data, tickVars, ingestVars, batchVars>>
    /\ UNCHANGED serviceVars

NextIndicators == CalculateIndicators

SpecIndicators == InitIndicators /\ [][NextIndicators]_vars

-----------------------------------------------------------------------------
(* lambda_handler of src/lambda_function.py: one invocation on an event *)

MaxRecords == 2      \* most records in an event

Symbols == {"A", "B"}

Item(stock_symbol, timestamp, price, volume) ==
    [stock_symbol |-> stock_symbol, timestamp |-> timestamp, price |-> price,
     volume |-> volume]

\* the numbers of items of symbol "A" in the table: none, a few, one short of
\* RSI_PERIOD, and those around required_points
SmallTable == {0, 1}

TableSizes ==
    SmallTable \cup {RSI_PERIOD - 1, required_points - 1, required_points + 1}

\* a table of m items of "A" at timestamps 1..m, and one item of "B"
StoredTable(m) ==
    [i \in 1..m |-> Item("A", i, BaseClose, i)] \o <<Item("B", 1, BaseClose, 1)>>

\* a payload that is not JSON
Garbage == [garbage |-> TRUE]

\* a payload without a price
NoPrice == [stock_symbol |-> "A", volume |-> 1]

\* a payload without a timestamp
Unstamped == [stock_symbol |-> "A", price |-> BaseClose, volume |-> 1]

RecordPrices == {BaseClose, BaseClose + 1}

\* The payloads of a record sent when the table holds m items of "A": a
\* timestamp is an old one (1) or the next one (m + 1).  With a long history
\* the payloads are fewer, all of symbol "A".
Payloads(m) ==
    IF m \in SmallTable
    THEN {Garbage, NoPrice, Unstamped}
            \cup {Item(s, t, p, 1) : s \in Symbols, t \in {1, m + 1}, p \in RecordPrices}
    ELSE {NoPrice, Item("A", 1, BaseClose, 1)}
            \cup {Item("A", m + 1, p, 1) : p \in RecordPrices}

\* With a long history only the last record of an event moves the price
\* (the two latest prices of a list are the free ones).
PricesFit(m, records) ==
    m \in SmallTable \/
        \A i \in 1..(Len(records) - 1) :
            "price" \in DOMAIN records[i] => records[i].price = BaseClose

\* an event without the key 'Records'
NoRecords == [source |-> "aws:kinesis"]

InitIngest ==
    /\ \E m \in TableSizes :
          /\ table = StoredTable(m)
          /\ \/ event = NoRecords
             \/ \E k \in 0..MaxRecords : \E records \in [1..k -> Payloads(m)] :
                   /\ PricesFit(m, records)
                   /\ event = [Records |-> records]
    /\ history = <<>>
    /\ fetched = <<>>
    /\ processed_records = <<>>
    /\ cursor = 0
    /\ combined = <<>>
    /\ response = NoResponse
    /\ pc = "fetch"
    /\ TickIdle
    /\ IndicatorsIdle
    /\ BatchIdle
    /\ ServicesIdle

\* the outer except of lambda_handler
Failed == [statusCode |-> 500]

\* lines 224-243 go through: the event has records and the first one names
\* its stock_symbol, or the list of records is empty
Fetchable ==
    /\ "Records" \in DOMAIN event
    /\ event.Records # <<>> => "stock_symbol" \in DOMAIN event.Records[1]

\* lines 224-243: the history of the first record's symbol is fetched
FetchHistory ==
    /\ pc = "fetch"
    /\ Fetchable
    /\ \E h \in {IF event.Records = <<>> THEN <<>>
                 ELSE SortedOnTimestamp(Query(table, event.Records[1].stock_symbol,
                                              required_points))} :
          history' = h /\ fetched' = h
    /\ pc' = "loop"
    /\ UNCHANGED <<table, event, processed_records, cursor, combined, response>>
    /\ UNCHANGED <<tickVars, indicatorVars, batchVars>>
    /\ UNCHANGED serviceVars

\* lines 224-233 raise (no 'Records', or a first record that cannot be
\* read): the outer except answers 500
FetchFails ==
    /\ pc = "fetch"
    /\ ~Fetchable
    /\ response' = Failed
    /\ pc' = "returned"
    /\ UNCHANGED <<table, event, history, fetched, processed_records, cursor, combined>>
    /\ UNCHANGED <<tickVars, indicatorVars, batchVars>>
    /\ UNCHANGED serviceVars

\* lines 248-250 for the dict process_record returned
Retain(hist, processed_data) ==
    IF processed_data = <<>> THEN hist
    ELSE LastN(SortedOnTimestamp(Append(hist, processed_data)), required_points)

\* lines 245-250: one pass of the loop over event['Records']
ProcessNext ==
    /\ pc = "loop"
    /\ cursor < Len(event.Records)
    /\ \E data \in {Indicated(event.Records[cursor + 1], history)} :
       \E reply \in EndpointReplies, put_ok \in BOOLEAN :
          \E r \in {Concluded(data, table, reply, put_ok)} :
             /\ table' = r.table
             /\ processed_records' =
                    IF r.ret = <<>> THEN processed_records
                    ELSE Append(processed_records, r.ret)
             /\ history' = Retain(history, r.ret)
    /\ combined' =
           IF Decodes(event.Records[cursor + 1])
           THEN Combined(event.Records[cursor + 1], history)
           ELSE combined
    /\ cursor' = cursor + 1
    /\ UNCHANGED <<event, fetched, response, pc>>
    /\ UNCHANGED <<tickVars, indicatorVars, batchVars>>
    /\ UNCHANGED serviceVars

\* lines 253-259: the loop is over
ReturnProcessed ==
    /\ pc = "loop"
    /\ cursor = Len(event.Records)
    /\ response' = [statusCode |-> 200, processed_records |-> Len(processed_records)]
    /\ pc' = "returned"
    /\ UNCHANGED <<table, event, history, fetched, processed_records, cursor, combined>>
    /\ UNCHANGED <<tickVars, indicatorVars, batchVars>>
    /\ UNCHANGED serviceVars

NextIngest == FetchHistory \/ FetchFails \/ ProcessNext \/ ReturnProcessed

SpecIngest == InitIngest /\ [][NextIngest]_vars

-----------------------------------------------------------------------------
(* lambda_handler of 20-Process-stock-data: one invocation on an event.      *)
(* A timestamp of a payload is a number ([epoch |-> t]) or a string that      *)
(* convert_timestamp cannot read ([text |-> ...]).                            *)

\* seconds in a minute
Minute == 60

\* lookback_minutes * 60 of fetch_historical_data (lookback_minutes=30)
LookbackSeconds == 30 * Minute

\* the time of the first tick of an event; ticks are a minute apart
Now == 2 * LookbackSeconds

Epoch(t) == [epoch |-> t]

Unreadable == [text |-> "yesterday"]

\* a tick as 10-Push-to-Kinesis sends it
Tick(symbol, t, close) ==
    [symbol |-> symbol, timestamp |-> Epoch(t), open |-> close, close |-> close,
     high |-> close, low |-> close, volume |-> 1]

\* payloads that lack a field the handler reads
WithoutTimestamp ==
    [symbol |-> "A", open |-> BaseClose, close |-> BaseClose, high |-> BaseClose,
     low |-> BaseClose, volume |-> 1]

WithoutOpen ==
    [symbol |-> "A", timestamp |-> Epoch(Now), close |-> BaseClose,
     high |-> BaseClose, low |-> BaseClose, volume |-> 1]

UnreadableTimestamp ==
    [symbol |-> "A", timestamp |-> Unreadable, open |-> BaseClose,
     close |-> BaseClose, high |-> BaseClose, low |-> BaseClose, volume |-> 1]

Ticks ==
    {Garbage, WithoutTimestamp, WithoutOpen, UnreadableTimestamp}
        \cup {Tick(symbol, t, BaseClose) : symbol \in Symbols, t \in {Now, Now + Minute}}

\* a bar of the table that has the fields of a series: symbol, timestamp,
\* close, high, low, volume
StoredBar(symbol, t) ==
    [symbol |-> symbol, timestamp |-> t, close |-> BaseClose, high |-> BaseClose,
     low |-> BaseClose, volume |-> 1]

\* convert_timestamp raises unless it is given a number (or a string in
\* one of its two formats, which no payload here carries)
Convertible(timestamp_str) == "epoch" \in DOMAIN timestamp_str

\* convert_timestamp of a number: int(timestamp_str)
convert_timestamp(timestamp_str) == timestamp_str.epoch

\* fetch_historical_data: the items of the symbol from lookback_timestamp
\* on, in the order of the sort key; [] when the query raises
fetch_historical_data(tbl, symbol, current_timestamp, fetch_ok) ==
    IF fetch_ok
    THEN SortByTimestamp(SelectSeq(tbl, LAMBDA x :
             x.symbol = symbol /\ x.timestamp >= current_timestamp - LookbackSeconds))
    ELSE <<>>

\* the keys calculate_technical_signals reads of every item of the series
SeriesKeys == {"close", "high", "low", "volume"}

\* lines 366-371
Formatted(tick) ==
    [close |-> tick.close, high |-> tick.high, low |-> tick.low, volume |-> tick.volume]

\* lines 376-387 for the signals and their analysis
ResultOf(tick, current_timestamp, sig, signal_analysis) ==
    [symbol |-> tick.symbol, timestamp |-> current_timestamp,
     current_price |-> Num(tick.close), signal |-> signal_analysis.signal,
     confidence |-> signal_analysis.confidence, signals |-> sig,
     open |-> Num(tick.open), high |-> Num(tick.high), low |-> Num(tick.low),
     volume |-> tick.volume]

\* lines 373-387 go through: every item of the history has the keys of the
\* series (line 101 raises KeyError otherwise) and the tick has 'open'
Evaluable(tick, historical) ==
    /\ \A i \in DOMAIN historical : SeriesKeys \subseteq DOMAIN historical[i]
    /\ "open" \in DOMAIN tick

\* lines 373-387: the result dict
Evaluated(tick, current_timestamp, historical) ==
    ResultOf(tick, current_timestamp,
             calculate_technical_signals(Formatted(tick), historical).ret,
             analyze_signals(
                 calculate_technical_signals(Formatted(tick), historical).ret).ret)

\* float_to_decimal of a float (lines 319-326): NaN and infinities become
\* Decimal('0')
DecimalOf(value) == IF IsFinite(value) THEN value ELSE Num(0)

\* float_to_decimal(result), the item that is put
ItemOf(result) ==
    [result EXCEPT !.signals = [key \in DOMAIN result.signals |->
                                    DecimalOf(result.signals[key])]]

\* items with the same primary key (symbol, timestamp)
SamePrediction(a, b) == a.symbol = b.symbol /\ a.timestamp = b.timestamp

\* table.put_item(Item=item)
PutPrediction(tbl, item) ==
    IF \E i \in DOMAIN tbl : SamePrediction(tbl[i], item)
    THEN [i \in DOMAIN tbl |-> IF SamePrediction(tbl[i], item) THEN item ELSE tbl[i]]
    ELSE Append(tbl, item)

\* store_prediction with the item put although put_item raised
store_prediction_PutAnyway(tbl, result, put_ok) ==
    [raised |-> ~put_ok, table |-> PutPrediction(tbl, ItemOf(result))]

\* store_prediction: the item is put, or the exception of put_item is raised
\* again and the table is as it was
store_prediction(tbl, result, put_ok) ==
    IF put_ok THEN [raised |-> FALSE, table |-> PutPrediction(tbl, ItemOf(result))]
    ELSE [raised |-> TRUE, table |-> tbl]

\* lines 358-371 go through for the payload of a record
Readable(tick) ==
    /\ "garbage" \notin DOMAIN tick
    /\ "timestamp" \in DOMAIN tick
    /\ Convertible(tick.timestamp)
    /\ {"symbol"} \cup SeriesKeys \subseteq DOMAIN tick

\* the log lines of a record: whether the fetch went through and whether
\* the prediction was stored
Logged(fetch_ok, stored) == [fetched |-> fetch_ok, stored |-> stored]

\* line 389 and the except of lines 391-393 for the result dict
Stored(tbl, result, fetch_ok, put_ok) ==
    [logged |-> Logged(fetch_ok, ~store_prediction(tbl, result, put_ok).raised),
     table |-> store_prediction(tbl, result, put_ok).table]

\* lines 373-393 for the history fetched
EvaluateAndStore(tick, tbl, historical, fetch_ok, put_ok) ==
    IF ~Evaluable(tick, historical)
    THEN [logged |-> Logged(fetch_ok, FALSE), table |-> tbl]
    ELSE Stored(tbl, Evaluated(tick, convert_timestamp(tick.timestamp), historical),
                fetch_ok, put_ok)

\* lines 357-393: the body of the loop for one record
HandleRecord(tick, tbl, fetch_ok, put_ok) ==
    IF ~Readable(tick) THEN [logged |-> Logged(FALSE, FALSE), table |-> tbl]
    ELSE EvaluateAndStore(tick, tbl,
                 fetch_historical_data(tbl, tick.symbol,
                     convert_timestamp(tick.timestamp), fetch_ok),
                 fetch_ok, put_ok)

\* a prediction this handler stored earlier (it has no 'close')
StoredPrediction(symbol, t) ==
    ItemOf(Evaluated(Tick(symbol, t, BaseClose), t, <<>>))

\* the tables the handler is invoked on
Tables ==
    {<<>>,
     <<StoredBar("A", Now - Minute)>>,
     <<StoredBar("A", Now - LookbackSeconds - 1), StoredBar("B", Now - Minute)>>,
     <<StoredPrediction("A", Now - Minute)>>}

InitBatch ==
    /\ predictions \in Tables
    /\ predictions0 = predictions
    /\ \/ batch = NoRecords
       \/ \E k \in 0..MaxRecords : \E records \in [1..k -> Ticks] :
             batch = [Records |-> records]
    /\ taken = 0
    /\ log = <<>>
    /\ outcome = NoResponse
    /\ pc = "records"
    /\ TickIdle
    /\ IngestIdle
    /\ IndicatorsIdle
    /\ ServicesIdle

Raised == [raised |-> "ValueError"]

\* lines 353-354 and 400-402: no 'Records' in the event
RaiseNoRecords ==
    /\ pc = "records"
    /\ "Records" \notin DOMAIN batch
    /\ outcome' = Raised
    /\ pc' = "raised"
    /\ UNCHANGED <<predictions, predictions0, batch, taken, log>>
    /\ UNCHANGED <<tickVars, ingestVars, indicatorVars>>
    /\ UNCHANGED serviceVars

\* lines 356-393: one pass of the loop over event['Records']
HandleNext ==
    /\ pc = "records"
    /\ "Records" \in DOMAIN batch
    /\ taken < Len(batch.Records)
    /\ \E fetch_ok \in BOOLEAN, put_ok \in BOOLEAN :
          \E r \in {HandleRecord(batch.Records[taken + 1], predictions,
                                 fetch_ok, put_ok)} :
             /\ predictions' = r.table
             /\ log' = Append(log, r.logged)
    /\ taken' = taken + 1
    /\ UNCHANGED <<predictions0, batch, outcome, pc>>
    /\ UNCHANGED <<tickVars, ingestVars, indicatorVars>>
    /\ UNCHANGED serviceVars

\* lines 395-398: the loop is over
ReturnSuccess ==
    /\ pc = "records"
    /\ "Records" \in DOMAIN batch
    /\ taken = Len(batch.Records)
    /\ outcome' = [statusCode |-> 200]
    /\ pc' = "returned"
    /\ UNCHANGED <<predictions, predictions0, batch, taken, log>>
    /\ UNCHANGED <<tickVars, ingestVars, indicatorVars>>
    /\ UNCHANGED serviceVars

NextBatch == RaiseNoRecords \/ HandleNext \/ ReturnSuccess

SpecBatch == InitBatch /\ [][NextBatch]_vars

-----------------------------------------------------------------------------
(* Scenario A: the evaluation of a series of strictly increasing closes.     *)
(* Every close of such a series differs from the others, and the exact value *)
(* of an EMA over it does not fit the checker's integers.  The MACD and      *)
(* signal lines enter the decision only through their order at the last two  *)
(* positions, so they are taken here in every one of these orders.           *)

ScenarioLen == 60    \* the observations of the scenario

\* the steps between consecutive closes, repeated in turn, and the last step
Steps == {1, 2}

LastSteps == {1, 3, 12}

RECURSIVE RisingClose(_, _, _)
\* close i of the series that starts at 1 and rises by the steps in turn
RisingClose(i, pattern, last) ==
    IF i = 1 THEN 1
    ELSE IF i = ScenarioLen THEN RisingClose(i - 1, pattern, last) + last
    ELSE RisingClose(i - 1, pattern, last) + pattern[i % 2]

RisingCloses(pattern, last) ==
    [i \in 1..ScenarioLen |-> RisingClose(i, pattern, last)]

\* The history and the tick of a rising series.  The tick is the highest
\* close, after the history, or (tickLow) the lowest: a tick has no timestamp
\* and is sorted before a history that has them.
RisingHistory(closes, hasTs, tickLow, spread) ==
    [i \in 1..(ScenarioLen - 1) |->
        IF hasTs THEN Stamped(Bar(closes[IF tickLow THEN i + 1 ELSE i], spread, i), i)
        ELSE Bar(closes[IF tickLow THEN i + 1 ELSE i], spread, i)]

RisingTick(closes, tickLow, spread) ==
    Bar(IF tickLow THEN closes[1] ELSE closes[ScenarioLen], spread, 0)

InitRising ==
    /\ \E pattern \in [0..1 -> Steps], last \in LastSteps, hasTs \in BOOLEAN,
          tickLow \in BOOLEAN, spread \in Spreads :
          \E closes \in {RisingCloses(pattern, last)} :
             /\ tickLow => hasTs
             /\ historical_data = RisingHistory(closes, hasTs, tickLow, spread)
             /\ stock_data = RisingTick(closes, tickLow, spread)
    /\ signals = NoDict
    /\ locals = NoLocals
    /\ analysis = NoAnalysis
    /\ vote = NoVote
    /\ pc = "rising"
    /\ IngestIdle
    /\ IndicatorsIdle
    /\ BatchIdle
    /\ ServicesIdle

\* the values the MACD and signal lines may have relative to each other
MacdLevels == {Num(-1), Num(0), Num(1)}

\* MACD and signal series of length n, the signal at 0, the MACD at a and b
\* at the last two positions
MacdLines(n, a, b) ==
    [macd |-> [i \in 1..n |-> IF i = n THEN b ELSE IF i = n - 1 THEN a ELSE Num(0)],
     signal |-> [i \in 1..n |-> Num(0)]]

\* "Calculate technical indicators" with the MACD lines m
IndicatorValuesWith(close_prices, high_prices, low_prices, m) ==
    ReadValues(close_prices, Len(close_prices), m,
        calculate_bollinger_bands(close_prices, 20, 2, 2, Len(close_prices)),
        calculate_stochastic_oscillator(high_prices, low_prices, close_prices,
                                        Len(close_prices)),
        calculate_stochastic_oscillator(high_prices, low_prices, close_prices,
                                        Len(close_prices) - 1))

\* lines 101-245 for a series of at least 30 observations and the MACD lines m
FromSeriesWith(all_data, m) ==
    SignalsOf(all_data,
        IndicatorValuesWith([i \in 1..Len(all_data) |-> all_data[i].close],
                            [i \in 1..Len(all_data) |-> all_data[i].high],
                            [i \in 1..Len(all_data) |-> all_data[i].low], m),
        [i \in 1..Len(all_data) |-> all_data[i].volume])

\* signals = calculate_technical_signals(stock_data_formatted, historical_data)
CalculateRising ==
    /\ pc = "rising"
    /\ \E all_data \in {SortByTimestamp(AddCurrent(stock_data, historical_data))} :
       \E a \in MacdLevels, b \in MacdLevels :
          \E r \in {FromSeriesWith(all_data, MacdLines(Len(all_data), a, b))} :
             /\ signals' = r.ret
             /\ locals' = r.locals
    /\ pc' = "calculated"
    /\ UNCHANGED <<historical_data, stock_data, analysis, vote>>
    /\ UNCHANGED <<ingestVars, indicatorVars, batchVars>>
    /\ UNCHANGED serviceVars

NextRising == CalculateRising \/ AnalyzeSignals

SpecRising == InitRising /\ [][NextRising]_vars

-----------------------------------------------------------------------------
(* store_prediction of 20-Process-stock-data on any result.  A Python value  *)
(* is a record tagged with its type: [k |-> "float", v |-> ...],              *)
(* [k |-> "dict", d |-> ...], [k |-> "list", l |-> ...].                      *)

PyNone == [k |-> "none"]

PyFloat(x) == [k |-> "float", v |-> x]

NpFloat(x) == [k |-> "np.float64", v |-> x]

PyInt(n) == [k |-> "int", v |-> Num(n)]

NpInt(n) == [k |-> "np.int64", v |-> Num(n)]

PyBool == [k |-> "bool", v |-> Num(1)]

PyStr(str) == [k |-> "str", s |-> str]

PyDecimal(x) == [k |-> "Decimal", v |-> x]

PyDict(d) == [k |-> "dict", d |-> d]

PyList(l) == [k |-> "list", l |-> l]

PyTuple(l) == [k |-> "tuple", l |-> l]

\* a field a dict does not have
Absent == [k |-> "absent"]

\* the types whose values are numbers
NumberTypes == {"float", "np.float64", "int", "np.int64", "bool", "Decimal"}

\* convert_timestamp returns for a value: an int (int(nan) and strptime of
\* a string in neither format raise)
ConvertsTimestamp(value) == value.k = "int"

\* validate_item returns: a dict with 'symbol' and 'timestamp', the symbol a
\* str, the timestamp one that convert_timestamp converts
Valid(item) ==
    /\ item.k = "dict"
    /\ {"symbol", "timestamp"} \subseteq DOMAIN item.d
    /\ item.d["symbol"].k = "str"
    /\ ConvertsTimestamp(item.d["timestamp"])

\* validate_item of a valid item: item['timestamp'] is converted
validate_item(item) == [item EXCEPT !.d["timestamp"] = [k |-> "int", v |-> @.v]]

\* float_to_decimal returns: Decimal(str(True)) raises InvalidOperation
RECURSIVE Converts(_)
Converts(value) ==
    IF value.k = "bool" THEN FALSE
    ELSE IF value.k = "dict" THEN \A key \in DOMAIN value.d : Converts(value.d[key])
    ELSE IF value.k \in {"list", "tuple"} THEN \A i \in DOMAIN value.l : Converts(value.l[i])
    ELSE TRUE

\* variant of float_to_decimal: only NaN is replaced, infinities are kept
RECURSIVE float_to_decimal_NaNOnly(_)
float_to_decimal_NaNOnly(value) ==
    IF value.k = "none" THEN value
    ELSE IF value.k = "np.int64" THEN [k |-> "int", v |-> value.v]
    ELSE IF value.k \in {"np.float64", "int", "float"}
    THEN PyDecimal(IF IsNaN(value.v) THEN Num(0) ELSE value.v)
    ELSE IF value.k = "dict"
    THEN PyDict([key \in DOMAIN value.d |-> float_to_decimal_NaNOnly(value.d[key])])
    ELSE IF value.k \in {"list", "tuple"}
    THEN PyList([i \in DOMAIN value.l |-> float_to_decimal_NaNOnly(value.l[i])])
    ELSE value

\* float_to_decimal
RECURSIVE float_to_decimal(_)
float_to_decimal(value) ==
    IF value.k = "none" THEN value
    ELSE IF value.k = "np.int64" THEN [k |-> "int", v |-> value.v]
    ELSE IF value.k = "np.float64" THEN PyDecimal(DecimalOf(value.v))
    ELSE IF value.k \in {"int", "float"} THEN PyDecimal(DecimalOf(value.v))
    ELSE IF value.k = "dict"
    THEN PyDict([key \in DOMAIN value.d |-> float_to_decimal(value.d[key])])
    ELSE IF value.k \in {"list", "tuple"}
    THEN PyList([i \in DOMAIN value.l |-> float_to_decimal(value.l[i])])
    ELSE value

\* the serializer of put_item takes the item: it refuses a float, a numpy
\* number, a tuple, and a Decimal that is NaN or infinite
RECURSIVE Serializable(_)
Serializable(value) ==
    IF value.k \in {"float", "np.float64", "np.int64", "tuple"} THEN FALSE
    ELSE IF value.k = "Decimal" THEN IsFinite(value.v)
    ELSE IF value.k = "dict" THEN \A key \in DOMAIN value.d : Serializable(value.d[key])
    ELSE IF value.k = "list" THEN \A i \in DOMAIN value.l : Serializable(value.l[i])
    ELSE TRUE

\* items with the same primary key (symbol, timestamp)
SameItem(a, b) ==
    a.d["symbol"] = b.d["symbol"] /\ a.d["timestamp"].v = b.d["timestamp"].v

\* table.put_item(Item=item) for an item the serializer takes
put_item(tbl, item) ==
    IF \E i \in DOMAIN tbl : SameItem(tbl[i], item)
    THEN [i \in DOMAIN tbl |-> IF SameItem(tbl[i], item) THEN item ELSE tbl[i]]
    ELSE Append(tbl, item)

\* lines 338-339 for a validated item
ConvertAndPut(tbl, item, put_ok) ==
    IF ~Converts(item) THEN [raised |-> "InvalidOperation", table |-> tbl]
    ELSE IF ~Serializable(float_to_decimal(item)) THEN [raised |-> "TypeError", table |-> tbl]
    ELSE IF ~put_ok THEN [raised |-> "ClientError", table |-> tbl]
    ELSE [raised |-> "", table |-> put_item(tbl, float_to_decimal(item))]

\* store_prediction on any result: the exception it raises again ("" when
\* it returns) and the table afterwards
StoreAny(tbl, res, put_ok) ==
    IF ~Valid(res) THEN [raised |-> "ValueError", table |-> tbl]
    ELSE ConvertAndPut(tbl, validate_item(res), put_ok)

\* the floats of the results
Floats == {Rat(1, 2), NaN, Inf(1), Inf(-1)}

\* the values nested in the signals of the results
Leaves ==
    {PyNone, PyInt(1), NpInt(1), PyBool, PyStr("BUY"), PyDecimal(NaN),
     PyDecimal(Rat(1, 2))}
        \cup {PyFloat(x) : x \in Floats} \cup {NpFloat(x) : x \in Floats}

\* a dict without the fields that are Absent
DictOf(fields) ==
    PyDict([key \in {x \in DOMAIN fields : fields[x] # Absent} |-> fields[key]])

\* a result: price at the top, value in a dict, and in a dict of a tuple of
\* a list of that dict
ResultWith(symbol, timestamp, price, value) ==
    DictOf([symbol |-> symbol, timestamp |-> timestamp, current_price |-> price,
            signals |-> PyDict([RSI |-> value,
                                levels |-> PyTuple(<<PyList(<<PyDict([low |-> value])>>)>>)])])

Results ==
    {PyList(<<>>)}
        \cup {ResultWith(symbol, timestamp, price, value) :
                 symbol \in {PyStr("A"), PyInt(7), Absent},
                 timestamp \in {PyInt(Now), PyStr("yesterday"), PyFloat(NaN), Absent},
                 price \in {PyInt(1)} \cup {PyFloat(x) : x \in Floats},
                 value \in Leaves}

\* an item put earlier under the key ("A", Now)
EarlierItem ==
    float_to_decimal(ResultWith(PyStr("A"), PyInt(Now), PyInt(1), PyNone))

InitStore ==
    /\ store_result \in Results
    /\ put_items \in {<<>>, <<EarlierItem>>}
    /\ put_items0 = put_items
    /\ raised = ""
    /\ pc = "store"
    /\ TickIdle
    /\ IngestIdle
    /\ IndicatorsIdle
    /\ BatchIdle
    /\ LoopIdle
    /\ ProducerIdle
    /\ ExportIdle

\* store_prediction(result)
StorePrediction ==
    /\ pc = "store"
    /\ \E put_ok \in BOOLEAN :
          \E r \in {StoreAny(put_items, store_result, put_ok)} :
             /\ put_items' = r.table
             /\ raised' = r.raised
    /\ pc' = "stored"
    /\ UNCHANGED <<store_result, put_items0>>
    /\ UNCHANGED <<tickVars, ingestVars, indicatorVars, batchVars, loopVars, producerVars, exportVars>>

NextStore == StorePrediction

SpecStore == InitStore /\ [][NextStore]_vars

-----------------------------------------------------------------------------
(* process_symbols of src/push_to_kinesis.py: the loop that fetches a quote  *)
(* for every symbol and sends it to the stream.  The quote source and the    *)
(* stream are the environment: during an outage every fetch and send fails,  *)
(* otherwise each may fail or not.                                           *)

MaxSymbols == 3      \* longest list of symbols
MaxErrors == 4       \* largest MAX_ERRORS

\* is_trading_hours(): True when TRADING_HOURS_ONLY is off; when it is on,
\* timezone.timezone('America/New_York') raises AttributeError
\* (datetime.timezone has no attribute 'timezone')
is_trading_hours_raises == config.TRADING_HOURS_ONLY

\* the except of lines 153-163: FALSE when the exception is raised again
OuterExcept(count) == count + 1 < config.MAX_ERRORS

InitLoop ==
    /\ \E n \in 1..MaxSymbols : symbols = [i \in 1..n |-> i]
    /\ \E m \in 1..MaxErrors, flag \in BOOLEAN :
          config = [MAX_ERRORS |-> m, TRADING_HOURS_ONLY |-> flag]
    /\ errors_count = 0
    /\ position = 0
    /\ pass_log = <<>>
    /\ outage \in BOOLEAN
    /\ pc = "while"
    /\ TickIdle
    /\ IngestIdle
    /\ IndicatorsIdle
    /\ BatchIdle
    /\ StoreIdle
    /\ ProducerIdle
    /\ ExportIdle

\* lines 133-134 and 153-163: is_trading_hours raises, the outer except
\* counts the error and raises it again, or sleeps and continues
TradingHoursRaises ==
    /\ pc = "while"
    /\ is_trading_hours_raises
    /\ errors_count' = errors_count + 1
    /\ pc' = IF OuterExcept(errors_count) THEN "while" ELSE "exited"
    /\ UNCHANGED <<symbols, config, position, pass_log, outage>>
    /\ UNCHANGED <<tickVars, ingestVars, indicatorVars, batchVars, storeVars, producerVars, exportVars>>

\* lines 133-139: trading hours, the for loop starts
StartPass ==
    /\ pc = "while"
    /\ ~is_trading_hours_raises
    /\ position' = 1
    /\ pass_log' = <<>>
    /\ pc' = "for"
    /\ UNCHANGED <<symbols, config, errors_count, outage>>
    /\ UNCHANGED <<tickVars, ingestVars, indicatorVars, batchVars, storeVars, producerVars, exportVars>>

\* lines 140-149 (and 153-159 when line 148 raises): one symbol of the pass
ProcessSymbol ==
    /\ pc = "for"
    /\ position <= Len(symbols)
    /\ \E fetch_ok \in {b \in BOOLEAN : outage => ~b},
          send_ok \in {b \in BOOLEAN : outage => ~b} :
          IF fetch_ok /\ send_ok
          THEN /\ pass_log' = Append(pass_log, "processed")
               /\ position' = position + 1
               /\ UNCHANGED <<errors_count, pc>>
          ELSE /\ pass_log' = Append(pass_log, "error")
               /\ IF errors_count + 1 >= config.MAX_ERRORS
                  THEN \* line 148 raises into the except of line 153
                       /\ errors_count' = errors_count + 2
                       /\ pc' = IF OuterExcept(errors_count + 1) THEN "while" ELSE "exited"
                       /\ UNCHANGED position
                  ELSE /\ errors_count' = errors_count + 1
                       /\ position' = position + 1
                       /\ UNCHANGED pc
    /\ UNCHANGED <<symbols, config, outage>>
    /\ UNCHANGED <<tickVars, ingestVars, indicatorVars, batchVars, storeVars, producerVars, exportVars>>

\* line 151 and line 165: the for loop is over
EndPass ==
    /\ pc = "for"
    /\ position > Len(symbols)
    /\ errors_count' = 0
    /\ pc' = "sleep"
    /\ UNCHANGED <<symbols, config, position, pass_log, outage>>
    /\ UNCHANGED <<tickVars, ingestVars, indicatorVars, batchVars, storeVars, producerVars, exportVars>>

\* line 165 returns: the next pass of while True
NextPass ==
    /\ pc = "sleep"
    /\ pc' = "while"
    /\ UNCHANGED loopVars
    /\ UNCHANGED <<tickVars, ingestVars, indicatorVars, batchVars, storeVars, producerVars, exportVars>>

\* the environment: an outage begins or ends
OutageChanges ==
    /\ pc \in {"while", "for", "sleep"}
    /\ outage' = ~outage
    /\ UNCHANGED <<symbols, config, errors_count, position, pass_log, pc>>
    /\ UNCHANGED <<tickVars, ingestVars, indicatorVars, batchVars, storeVars, producerVars, exportVars>>

\* a step of process_symbols
LoopStep == TradingHoursRaises \/ StartPass \/ ProcessSymbol \/ EndPass \/ NextPass

NextLoop ==
    TradingHoursRaises \/ StartPass \/ ProcessSymbol \/ EndPass \/ NextPass \/ OutageChanges

SpecLoop == InitLoop /\ [][NextLoop]_vars

\* the process runs: whenever process_symbols can take a step it takes one
SpecLoopFair == SpecLoop /\ WF_vars(LoopStep)

-----------------------------------------------------------------------------
(* lambda_handler of src/10-Push-to-Kinesis/lambda_function.py: one          *)
(* invocation.  get_stock_data and put_to_kinesis are retried by tenacity,   *)
(* which raises RetryError after the last attempt.                           *)

\* stop_after_attempt(3) of get_stock_data
FetchLimit == 3

\* stop_after_attempt(3) of put_to_kinesis
PutLimit == 3

\* variant of stop_after_attempt: one more attempt is made
stop_after_attempt_Late(attempt_number, max_attempt_number) ==
    attempt_number > max_attempt_number

\* tenacity's stop_after_attempt: no retry after this attempt
stop_after_attempt(attempt_number, max_attempt_number) ==
    attempt_number >= max_attempt_number

\* no stock_data yet
NoQuote == [stock_symbol |-> ""]

\* lines 39-47: the dict get_stock_data returns
Quote(close, spread) ==
    [stock_symbol |-> "TSLA", timestamp |-> "2024-01-02T15:59:00", open |-> close,
     high |-> close + spread, low |-> close - spread, close |-> close, volume |-> 1]

\* the except of lines 110-115
Answer500 == [statusCode |-> 500]

\* lines 105-108
Answer200 == [statusCode |-> 200]

InitProducer ==
    /\ quote = NoQuote
    /\ fetch_attempts = 0
    /\ put_attempts = 0
    /\ stream \in {<<>>, <<Quote(BaseClose, 0)>>}
    /\ stream0 = stream
    /\ answer = NoResponse
    /\ pc = "get"
    /\ TickIdle
    /\ IngestIdle
    /\ IndicatorsIdle
    /\ BatchIdle
    /\ StoreIdle
    /\ LoopIdle
    /\ ExportIdle

\* line 95: one attempt of get_stock_data; when the last one has failed
\* RetryError reaches the except of line 110
GetStockData ==
    /\ pc = "get"
    /\ fetch_attempts' = fetch_attempts + 1
    /\ \/ \E close \in Closes, spread \in Spreads :
             /\ quote' = Quote(close, spread)
             /\ pc' = "put"
             /\ UNCHANGED answer
       \/ /\ ~stop_after_attempt(fetch_attempts + 1, FetchLimit)
          /\ UNCHANGED <<quote, answer, pc>>
       \/ /\ stop_after_attempt(fetch_attempts + 1, FetchLimit)
          /\ answer' = Answer500
          /\ pc' = "done"
          /\ UNCHANGED quote
    /\ UNCHANGED <<put_attempts, stream, stream0>>
    /\ UNCHANGED <<tickVars, ingestVars, indicatorVars, batchVars, storeVars, loopVars, exportVars>>

\* lines 103-108: one attempt of put_to_kinesis; the handler returns 200
\* when put_record has returned, 500 when the last attempt has failed
PutToKinesis ==
    /\ pc = "put"
    /\ put_attempts' = put_attempts + 1
    /\ \/ /\ stream' = Append(stream, quote)
          /\ answer' = Answer200
          /\ pc' = "done"
       \/ /\ ~stop_after_attempt(put_attempts + 1, PutLimit)
          /\ UNCHANGED <<stream, answer, pc>>
       \/ /\ stop_after_attempt(put_attempts + 1, PutLimit)
          /\ answer' = Answer500
          /\ pc' = "done"
          /\ UNCHANGED stream
    /\ UNCHANGED <<quote, fetch_attempts, stream0>>
    /\ UNCHANGED <<tickVars, ingestVars, indicatorVars, batchVars, storeVars, loopVars, exportVars>>

NextProducer == GetStockData \/ PutToKinesis

SpecProducer == InitProducer /\ [][NextProducer]_vars

-----------------------------------------------------------------------------
(* lambda_handler of src/30-export-dynamodb-to-s3/lambda_function.py:        *)
(* invocations over a table whose items do not change.  A cell of the CSV    *)
(* is a number, a string or empty; the text of a number is not modelled.     *)

MaxItems == 2        \* most items in the table
MaxExports == 3      \* most invocations of the handler

\* an item of another table layout: it has no 'symbol'
ForeignItem(t) == [stock_symbol |-> "A", timestamp |-> t, price |-> BaseClose]

\* an item with the keys only
BareItem(symbol, t) == [symbol |-> symbol, timestamp |-> t]

\* an item whose confidence float() does not take
TextItem(symbol, t) ==
    [symbol |-> symbol, timestamp |-> t, confidence |-> PyStr("high")]

\* the items a table may hold at timestamp t
ItemsAt(t) ==
    {StoredPrediction("A", t), ForeignItem(t), BareItem("B", t), TextItem("A", t)}

\* item.get(key, default) for the defaults of lines 92-110
GetOr(d, key, default) == IF key \in DOMAIN d THEN d[key] ELSE default

\* lines 96-111 go through: float(confidence) takes the confidence
Exportable(item) ==
    "confidence" \in DOMAIN item => item.confidence.k # "str"

\* lines 92-111: the record appended for an item
RecordOf(item) ==
    LET technical_signals == IF "signals" \in DOMAIN item THEN item.signals ELSE NoDict
    IN  [symbol |-> PyStr(item.symbol),
         timestamp |-> IF "timestamp" \in DOMAIN item THEN Num(item.timestamp) ELSE PyNone,
         current_price |-> GetOr(item, "current_price", PyNone),
         signal |-> PyStr(GetOr(item, "signal", "HOLD")),
         confidence |-> GetOr(item, "confidence", Num(0)),
         rsi |-> GetOr(technical_signals, "RSI", Num(50)),
         macd |-> GetOr(technical_signals, "MACD", Num(0)),
         bb_upper |-> GetOr(technical_signals, "BB_Upper", Num(0)),
         bb_lower |-> GetOr(technical_signals, "BB_Lower", Num(0)),
         stoch_k |-> GetOr(technical_signals, "Stoch_K", Num(50)),
         stoch_d |-> GetOr(technical_signals, "Stoch_D", Num(50)),
         ma_5 |-> GetOr(technical_signals, "MA_5", Num(0)),
         ma_20 |-> GetOr(technical_signals, "MA_20", Num(0)),
         volume |-> GetOr(technical_signals, "Volume", Num(0))]

\* process_dynamodb_items: a record for every item that has a 'symbol' and
\* whose values convert, in the order of the scan
process_dynamodb_items(items) ==
    LET kept == SelectSeq(items, LAMBDA item : "symbol" \in DOMAIN item /\ Exportable(item))
    IN  [i \in DOMAIN kept |-> RecordOf(kept[i])]

\* the cell of the CSV that is empty
EmptyCell == [k |-> "empty"]

\* DataFrame.to_csv: None and NaN are written as empty cells
to_csv(df) ==
    [i \in DOMAIN df |->
        [column \in DOMAIN df[i] |->
            IF df[i][column] \in {PyNone, NaN} THEN EmptyCell ELSE df[i][column]]]

\* pd.read_csv: an empty cell is read as NaN
read_csv(body) ==
    [i \in DOMAIN body |->
        [column \in DOMAIN body[i] |->
            IF body[i][column] = EmptyCell THEN NaN ELSE body[i][column]]]

\* update_csv_in_s3: the body put, from the body got (<<>> for NoSuchKey)
update_csv_in_s3(body, new_df) ==
    IF body = <<>> THEN to_csv(new_df)
    ELSE to_csv(read_csv(body) \o new_df)

\* lines 29-64 for what the scan, the get and the two puts do
Exported(items, body, scan_ok, get_ok, put_ok, manifest_ok) ==
    IF ~scan_ok THEN [answer |-> Answer500, csv |-> body]
    ELSE IF process_dynamodb_items(items) = <<>> THEN [answer |-> Answer200, csv |-> body]
    ELSE IF ~get_ok \/ ~put_ok THEN [answer |-> Answer500, csv |-> body]
    ELSE [answer |-> IF manifest_ok THEN Answer200 ELSE Answer500,
          csv |-> update_csv_in_s3(body, process_dynamodb_items(items))]

InitExport ==
    /\ \E n \in 0..MaxItems : \E items \in [1..n -> UNION {ItemsAt(Now + t) : t \in 1..MaxItems}] :
          /\ \A i \in 1..n : items[i].timestamp = Now + i
          /\ export_table = items
    /\ csv = <<>>
    /\ exports = 0
    /\ export_answer = NoResponse
    /\ pc = "export"
    /\ TickIdle
    /\ IngestIdle
    /\ IndicatorsIdle
    /\ BatchIdle
    /\ StoreIdle
    /\ LoopIdle
    /\ ProducerIdle

\* lambda_handler: one invocation
Export ==
    /\ pc = "export"
    /\ exports < MaxExports
    /\ \E scan_ok \in BOOLEAN, get_ok \in BOOLEAN, put_ok \in BOOLEAN,
          manifest_ok \in BOOLEAN :
          \E r \in {Exported(export_table, csv, scan_ok, get_ok, put_ok, manifest_ok)} :
             /\ csv' = r.csv
             /\ export_answer' = r.answer
    /\ exports' = exports + 1
    /\ UNCHANGED <<export_table, pc>>
    /\ UNCHANGED <<tickVars, ingestVars, indicatorVars, batchVars, storeVars, loopVars, producerVars>>

NextExport == Export

SpecExport == InitExport /\ [][NextExport]_vars

-----------------------------------------------------------------------------
(* Properties *)

\* the length of the series evaluated: the history plus the current tick
SeriesLen == Len(historical_data) + 1

\* the five micro-signals of the returned dict, as integers
Micro(key) == signals[key].n

\* the weighted sum of the five micro-signals, in hundredths
Hundredths ==
    30 * Micro("MA_Signal") + 20 * Micro("RSI_Signal") + 20 * Micro("MACD_Signal")
        + 15 * Micro("BB_Signal") + 15 * Micro("Stoch_Signal")

\* the summed weight of the non-neutral micro-signals, in hundredths
NonNeutralWeight ==
    30 * Abs(Micro("MA_Signal")) + 20 * Abs(Micro("RSI_Signal"))
        + 20 * Abs(Micro("MACD_Signal")) + 15 * Abs(Micro("BB_Signal"))
        + 15 * Abs(Micro("Stoch_Signal"))

\* C1: a series of fewer than 30 observations is answered by the fallback:
\* HOLD with confidence 0, the five micro-signals NEUTRAL, and the
\* placeholder values instead of indicators computed from the partial window.
C1_InsufficientDataFallback ==
    (pc = "analyzed" /\ SeriesLen < 30) =>
        /\ analysis = [signal |-> "HOLD", confidence |-> Num(0)]
        /\ \A key \in NameSet : signals[key] = Num(0)
        /\ locals.branch = "fallback"
        /\ signals["RSI"] = Num(50) /\ signals["MACD"] = Num(0)
        /\ signals["Stoch_K"] = Num(50) /\ signals["Stoch_D"] = Num(50)

\* a series of 29 observations with a move in it has been evaluated
C1_Witness ==
    /\ pc = "analyzed"
    /\ SeriesLen = 29
    /\ \E i \in DOMAIN historical_data : historical_data[i].close # stock_data.close

\* C2: in a computed record, trend_direction is up exactly when the latest
\* close is above MA_50; when it is up none of the five micro-signals is
\* SELL, when it is down none of them is BUY.
C2_TrendSuppression ==
    (pc # "start" /\ locals.branch = "computed") =>
        /\ locals.trend_direction \in {-1, 1}
        /\ (locals.trend_direction = 1) <=>
               RGreater(Num(Last(locals.all_data).close), signals["MA_50"])
        /\ locals.trend_direction = 1 => \A key \in NameSet : signals[key] # Num(-1)
        /\ locals.trend_direction = -1 => \A key \in NameSet : signals[key] # Num(1)

\* an up-trend in which an indicator other than the MA pair voted SELL
C2_Witness ==
    /\ pc # "start"
    /\ locals.branch = "computed"
    /\ locals.trend_direction = 1
    /\ \E key \in NameSet \ {"MA_Signal"} : locals.raw[key] = -1

\* C3: score is the weighted sum of the non-neutral micro-signals with the
\* weights 0.30, 0.20, 0.20, 0.15, 0.15 (which sum to 1), and the call is
\* BUY exactly when score > 0.3, SELL exactly when score < -0.3, else HOLD.
C3_VotingRule ==
    pc = "analyzed" =>
        /\ vote.score = Rat(Hundredths, 100)
        /\ vote.total_weight = Rat(NonNeutralWeight, 100)
        /\ (analysis.signal = "BUY") <=> (Hundredths > 30)
        /\ (analysis.signal = "SELL") <=> (Hundredths < -30)
        /\ analysis.signal \in {"BUY", "SELL", "HOLD"}
        /\ SumRats([i \in DOMAIN Weights |-> Weights[i][2]], 1, Len(Weights)) = Num(1)

\* the MA cross alone: a score of exactly 0.3 is HOLD
C3_Witness ==
    /\ pc = "analyzed"
    /\ Micro("MA_Signal") = 1
    /\ NonNeutralWeight = 30
    /\ analysis.signal = "HOLD"

\* C4: confidence is |score|, not divided by total_weight, and lies in
\* [0, 1]; with every micro-signal NEUTRAL the result is HOLD, confidence 0.
C4_Confidence ==
    pc = "analyzed" =>
        /\ analysis.confidence = Rat(Abs(Hundredths), 100)
        /\ ~RLess(analysis.confidence, Num(0))
        /\ ~RGreater(analysis.confidence, Num(1))
        /\ NonNeutralWeight = 0 =>
               analysis = [signal |-> "HOLD", confidence |-> Num(0)]

\* votes that disagree: |score| / total_weight would differ from |score|
C4_Witness ==
    /\ pc = "analyzed"
    /\ NonNeutralWeight > 0
    /\ NonNeutralWeight < 100
    /\ Abs(Hundredths) > 0
    /\ analysis.confidence = Rat(Abs(Hundredths), 100)

\* C5: with the MA and MACD micro-signals BUY and the other three NEUTRAL
\* the call is BUY with confidence 0.50.
C5_ScenarioC ==
    (/\ pc = "analyzed"
     /\ Micro("MA_Signal") = 1 /\ Micro("MACD_Signal") = 1
     /\ Micro("RSI_Signal") = 0 /\ Micro("BB_Signal") = 0 /\ Micro("Stoch_Signal") = 0)
    => analysis = [signal |-> "BUY", confidence |-> Rat(50, 100)]

\* a series whose 5/20 MA pair and MACD both cross upwards on the last bar
C5_Witness ==
    /\ pc = "analyzed"
    /\ locals.branch = "computed"
    /\ Micro("MA_Signal") = 1 /\ Micro("MACD_Signal") = 1
    /\ Micro("RSI_Signal") = 0 /\ Micro("BB_Signal") = 0 /\ Micro("Stoch_Signal") = 0

\* C7: the aggregator reads, for each of the five names, the post-filter
\* micro-signal: voting on the returned record gives the call and confidence
\* that voting on the five post-filter signals alone gives.
C7_RoundTrip ==
    pc = "analyzed" =>
        /\ \A key \in NameSet : signals[key] = Num(locals.post[key])
        /\ analysis = analyze_signals([key \in NameSet |-> Num(locals.post[key])]).ret

\* a computed record whose MACD signal line differs from the MACD micro-signal
C7_Witness ==
    /\ pc = "analyzed"
    /\ locals.branch = "computed"
    /\ locals.latest_signal # Num(locals.post["MACD_Signal"])
    /\ locals.post["MACD_Signal"] # 0

\* C8 as claimed: the record holds every indicator value under its own name,
\* the MACD signal line among them, beside the five micro-signals.
C8_EveryValueKept ==
    (pc # "start" /\ locals.branch = "computed") =>
        signals["MACD_Signal"] = locals.latest_signal

\* C9 as claimed: every value of a computed record is a finite number.
C9_NoUndefinedValues ==
    (pc # "start" /\ locals.branch = "computed") =>
        \A key \in DOMAIN signals : IsFinite(signals[key])

\* C10 as claimed: the fallback's moving averages are the close of the tick
\* being evaluated.
C10_FallbackUsesTickClose ==
    (pc # "start" /\ locals.branch = "fallback") =>
        /\ signals["MA_5"] = Num(stock_data.close)
        /\ signals["MA_20"] = Num(stock_data.close)
        /\ signals["MA_50"] = Num(stock_data.close)
        /\ signals["BB_Middle"] = Num(stock_data.close)

\* the close column of the series as calculate_technical_signals sorted it
SortedCloses == [i \in 1..Len(locals.all_data) |-> locals.all_data[i].close]

\* a record has been computed (not the fallback) from the series
Computed == pc # "start" /\ locals.branch = "computed"

\* C13 as claimed: the pre-filter MACD micro-signal is BUY exactly when the
\* previous MACD is <= the previous signal line and the latest MACD is above
\* the latest signal line, SELL exactly on the mirrored cross, else NEUTRAL.
C13_MacdCrossInclusive ==
    Computed =>
        /\ (locals.raw["MACD_Signal"] = 1) <=>
               (/\ ~RGreater(locals.v.prev_macd, locals.v.prev_signal)
                /\ RGreater(locals.v.latest_macd, locals.v.latest_signal))
        /\ (locals.raw["MACD_Signal"] = -1) <=>
               (/\ ~RLess(locals.v.prev_macd, locals.v.prev_signal)
                /\ RLess(locals.v.latest_macd, locals.v.latest_signal))

\* C14 as claimed: when the last 14 deltas hold a gain and no loss, the RSI
\* is 100 and the pre-filter RSI micro-signal is SELL.
C14_RsiSaturates ==
    (/\ Computed
     /\ SumLoss(SortedCloses, Len(SortedCloses) - 13, Len(SortedCloses)) = 0
     /\ SumGain(SortedCloses, Len(SortedCloses) - 13, Len(SortedCloses)) > 0)
    => /\ signals["RSI"] = Num(100)
       /\ locals.raw["RSI_Signal"] = -1

\* the items of the history carry timestamps
HistoryStamped ==
    /\ historical_data # <<>>
    /\ \A i \in DOMAIN historical_data : "timestamp" \in DOMAIN historical_data[i]

\* C18 as claimed: with a non-empty history whose items carry timestamps the
\* current tick is the last element of the sorted series, so latest_close and
\* the reported volume are the tick's.
C18_TickIsLatest ==
    (pc # "start" /\ HistoryStamped) =>
        /\ Last(locals.all_data) = AddCurrent(stock_data, <<>>)[1]
        /\ locals.branch = "computed" =>
               /\ locals.v.latest_close = Num(stock_data.close)
               /\ signals["Volume"] = Num(stock_data.volume)

\* C19 as claimed: for 30..49 observations the trend reference is the
\* 20-period MA, a defined value, and a latest close above it gives
\* trend_direction = +1.
C19_ShortHistoryTrend ==
    (Computed /\ Len(locals.all_data) >= 30 /\ Len(locals.all_data) < 50) =>
        /\ IsFinite(locals.v.latest_ma50)
        /\ locals.v.latest_ma50 = locals.v.latest_ma20
        /\ RGreater(locals.v.latest_close, locals.v.latest_ma20) =>
               locals.trend_direction = 1


\* the length guard calculate_indicators tests before computing a key
GuardOf(key) ==
    CASE key = "MA5" -> MA_PERIODS[1]
      [] key = "MA20" -> MA_PERIODS[2]
      [] key = "MA50" -> MA_PERIODS[3]
      [] key = "RSI" -> RSI_PERIOD
      [] key \in {"MACD", "Signal", "Hist"} -> MACD_SLOW + MACD_SIGNAL - 1
      [] key \in {"BB_Upper", "BB_Middle", "BB_Lower"} -> BBANDS_PERIOD
      [] key \in {"Stoch_K", "Stoch_D"} -> STOCH_K

GuardedKeys ==
    {"MA5", "MA20", "MA50", "RSI", "MACD", "Signal", "Hist",
     "BB_Upper", "BB_Middle", "BB_Lower", "Stoch_K", "Stoch_D"}

\* C17 as claimed: calculate_indicators reports an indicator as the sentinel
\* 0 when the number of prices is below its length guard, and as a defined
\* number, never NaN, whenever the guard passes (refuted: with 14 prices the
\* RSI, and with 14 to 17 prices the Stochastic values, are NaN).
C17_SentinelOrDefined ==
    (pc = "called" /\ ind_data # <<>>) =>
        \A key \in GuardedKeys :
            /\ Len(ind_data) < GuardOf(key) => indicators[key] = Num(0)
            /\ Len(ind_data) >= GuardOf(key) => IsFinite(indicators[key])

\* the record the loop of line 245 takes next
NextRecord == event.Records[cursor + 1]

\* the next record decodes and its timestamp is not strictly greater than
\* the latest one retained
OutOfOrder ==
    /\ pc = "loop" /\ cursor < Len(event.Records)
    /\ Decodes(NextRecord)
    /\ history # <<>>
    /\ DataOf(NextRecord).timestamp <= Last(history).timestamp

\* C11 as claimed: an observation whose timestamp is not strictly greater
\* than the latest retained one is rejected and the retained series is left
\* unchanged, never re-ordered to take it in (refuted: lines 248-250 append
\* the record and sort the series again).
C11_OutOfOrderRejected ==
    [][(OutOfOrder /\ cursor' = cursor + 1) =>
           (history' = history /\ processed_records' = processed_records)]_vars

\* the observations the handler has had in hand: the fetched history and
\* the records processed so far
Seen == fetched \o processed_records

\* the timestamps of a list of observations
Stamps(s) == [i \in DOMAIN s |-> s[i].timestamp]

\* how many elements of s are x
Count(s, x) == Cardinality({i \in DOMAIN s : s[i] = x})

Elements(s) == {s[i] : i \in DOMAIN s}

\* C12: once the history is fetched and after each record, the in-memory
\* history holds at most required_points (100) observations, is in
\* ascending order of timestamp, holds only observations fetched or
\* processed, and those it lacks are no newer than its oldest (the oldest
\* are the ones evicted).
C12_BoundedHistoryWindow ==
    (pc \in {"loop", "returned"} /\ response # Failed) =>
        /\ required_points = 100
        /\ Len(history) = Min2(Len(Seen), required_points)
        /\ \A i \in 1..(Len(history) - 1) :
               history[i].timestamp <= history[i + 1].timestamp
        /\ \A i \in DOMAIN history : history[i] \in Elements(Seen)
        /\ \A t \in Elements(Stamps(Seen)) :
               /\ Count(Stamps(history), t) <= Count(Stamps(Seen), t)
               /\ Count(Stamps(history), t) < Count(Stamps(Seen), t)
                      => t <= history[1].timestamp

\* a record older than the retained ones was processed with the history
\* full, and an observation was evicted
C12_Witness ==
    /\ pc = "loop" /\ cursor > 0
    /\ Len(Seen) > required_points
    /\ Len(history) = required_points
    /\ \E i \in DOMAIN processed_records :
          processed_records[i].timestamp < Last(fetched).timestamp

\* C16 as claimed: the observations a record is evaluated against (the list
\* process_record passes to calculate_indicators, whose last item is the
\* record itself) are all of the record's own symbol (refuted: the history
\* is fetched once, for the first record's symbol, and every processed
\* record is appended to it).
C16_SymbolIndependence ==
    combined # <<>> =>
        \A i \in DOMAIN combined :
            combined[i].stock_symbol = Last(combined).stock_symbol

RECURSIVE OnlyStored(_)
\* the table after the records logged as stored among the first i, taken
\* alone and in their order, have been handled
OnlyStored(i) ==
    IF i = 0 THEN predictions0
    ELSE IF log[i].stored
         THEN HandleRecord(batch.Records[i], OnlyStored(i - 1), log[i].fetched, TRUE).table
         ELSE OnlyStored(i - 1)

\* C20: in the handler of 20-Process-stock-data, for an event with 'Records',
\* a record that fails writes nothing and changes nothing for the others
\* (the table is what the stored records alone would have left), every
\* record is taken, and the handler returns statusCode 200; it raises only
\* when 'Records' is missing.
C20_PerRecordIsolation ==
    /\ outcome = Raised => "Records" \notin DOMAIN batch
    /\ (pc \in {"records", "returned", "raised"} /\ "Records" \in DOMAIN batch) =>
          /\ Len(log) = taken
          /\ predictions = OnlyStored(taken)
          /\ pc # "records" =>
                 /\ outcome = [statusCode |-> 200]
                 /\ taken = Len(batch.Records)

\* the handler has returned after a record that failed and a later one that
\* was stored
C20_Witness ==
    /\ pc = "returned"
    /\ \E i \in DOMAIN log : \E j \in DOMAIN log :
          i < j /\ ~log[i].stored /\ log[j].stored
    /\ predictions # predictions0

\* the closes of the series evaluated rise strictly
StrictlyIncreasing ==
    \A i \in 1..(Len(SortedCloses) - 1) : SortedCloses[i] < SortedCloses[i + 1]

\* the closes of the history, oldest first, and then the tick's rise strictly
InputIncreasing ==
    /\ \A i \in 1..(Len(historical_data) - 1) :
           historical_data[i].close < historical_data[i + 1].close
    /\ historical_data # <<>> => Last(historical_data).close < stock_data.close

\* C15: for a series of 60 observations whose closes are strictly
\* increasing (as passed in, or as evaluated after the sort on timestamp),
\* the overall call is never SELL: the trend is up and every SELL
\* micro-signal is set to NEUTRAL before the vote.
C15_RisingNeverSell ==
    (/\ pc = "analyzed"
     /\ Len(locals.all_data) >= 60
     /\ StrictlyIncreasing \/ InputIncreasing) =>
        /\ locals.trend_direction = 1
        /\ \A key \in NameSet : signals[key] # Num(-1)
        /\ analysis.signal # "SELL"

\* a rising series of 60 observations whose close is above the upper band
\* while the MACD crosses down has been evaluated
C15_Witness ==
    /\ pc = "analyzed"
    /\ Len(locals.all_data) = 60 /\ StrictlyIncreasing
    /\ locals.raw["BB_Signal"] = -1
    /\ locals.raw["MACD_Signal"] = -1

\* the items the handler of 20-Process-stock-data has written
Written == {predictions[i] : i \in {j \in DOMAIN predictions : predictions[j] \notin Elements(predictions0)}}

\* C21 as claimed: an item written by store_prediction is usable by
\* calculate_technical_signals as a historical observation, having the close,
\* high, low and volume it reads, so that every later tick of the symbol is
\* stored too (refuted: the result dict of lines 376-387 has 'current_price'
\* and no 'close'; a later tick that fetches it fails at line 101 and is
\* skipped).
C21_StoredItemsUsable ==
    \A item \in Written : SeriesKeys \subseteq DOMAIN item

\* the latest close of the sorted series is above the MA_50 of the record
AboveMA50 == RGreater(Num(Last(locals.all_data).close), signals["MA_50"])

\* C22: in a record that went through calculate_technical_signals and then
\* analyze_signals every non-neutral micro-signal has the sign of
\* trend_direction; so confidence is the summed weight of the non-neutral
\* indicators, a BUY call occurs only when the latest close is above MA_50
\* and a SELL call only when it is not.
C22_UniformDirection ==
    pc = "analyzed" =>
        /\ locals.branch = "computed" =>
               \A key \in NameSet : Micro(key) # 0 => Micro(key) = locals.trend_direction
        /\ analysis.confidence = Rat(NonNeutralWeight, 100)
        /\ analysis.confidence = vote.total_weight
        /\ analysis.signal = "BUY" => (locals.branch = "computed" /\ AboveMA50)
        /\ analysis.signal = "SELL" => (locals.branch = "computed" /\ ~AboveMA50)

\* indicators that disagreed before the filter, two of them left after it
C22_Witness ==
    /\ pc = "analyzed"
    /\ locals.branch = "computed"
    /\ \E key \in NameSet : locals.raw[key] = 1
    /\ \E key \in NameSet : locals.raw[key] = -1
    /\ \E k1, k2 \in NameSet : k1 # k2 /\ Micro(k1) # 0 /\ Micro(k2) # 0

\* every number of a value, at any depth of its dicts and lists, is finite
RECURSIVE AllFinite(_)
AllFinite(value) ==
    IF value.k \in NumberTypes THEN IsFinite(value.v)
    ELSE IF value.k = "dict" THEN \A key \in DOMAIN value.d : AllFinite(value.d[key])
    ELSE IF value.k \in {"list", "tuple"} THEN \A i \in DOMAIN value.l : AllFinite(value.l[i])
    ELSE TRUE

\* a float that is NaN or infinite
NonFiniteFloat(value) == value.k \in {"float", "np.float64"} /\ ~IsFinite(value.v)

\* the values of a result or item below its signals: in the dict, and in the
\* dict of the list of the sequence
NestedIn(item) ==
    {item.d["signals"].d["RSI"], item.d["signals"].d["levels"].l[1].l[1].d["low"]}

\* C23: every number of an item store_prediction has written, at any depth
\* of its dicts and lists, is finite: a NaN or infinite float of the result
\* is written as 0 (and the item is written, unless put_item fails); a
\* result without 'symbol' or 'timestamp', or whose symbol is not a string,
\* is rejected with an error and the table is left as it was.
C23_StoredItemsFinite ==
    pc = "stored" =>
        /\ \A i \in DOMAIN put_items : AllFinite(put_items[i])
        /\ ~Valid(store_result) => (raised = "ValueError" /\ put_items = put_items0)
        /\ raised # "" => put_items = put_items0
        /\ raised = "" =>
               \E i \in DOMAIN put_items :
                  /\ SameItem(put_items[i], store_result)
                  /\ NonFiniteFloat(store_result.d["current_price"]) =>
                         put_items[i].d["current_price"] = PyDecimal(Num(0))
                  /\ store_result.d["current_price"] = PyFloat(Rat(1, 2)) =>
                         put_items[i].d["current_price"] = PyDecimal(Rat(1, 2))
                  /\ \A value \in NestedIn(store_result) :
                        NonFiniteFloat(value) =>
                            NestedIn(put_items[i]) = {PyDecimal(Num(0))}
        /\ (/\ Valid(store_result)
            /\ \A value \in NestedIn(store_result) : value.k \notin {"bool", "Decimal"})
           => raised \in {"", "ClientError"}

\* a result with an infinite price and a numpy NaN in its signals was stored
\* over an earlier item of the same key
C23_Witness ==
    /\ pc = "stored"
    /\ raised = ""
    /\ put_items0 # <<>>
    /\ store_result.d["current_price"] = PyFloat(Inf(-1))
    /\ NestedIn(store_result) = {NpFloat(NaN)}

\* an item of the table has the key of the record
InTable(data) == \E i \in DOMAIN table : SameKey(table[i], data)

\* C24 as claimed: a record whose prediction was skipped, or failed, is still
\* written: it is in the table unless put_item itself failed on an item the
\* table takes (refuted: a record evaluated over 14 prices has RSI = NaN,
\* which put_item refuses; the error is logged and the record is dropped).
C24_SkippedStillWritten ==
    \A i \in DOMAIN processed_records :
        "prediction" \notin DOMAIN processed_records[i] =>
            (InTable(processed_records[i]) \/ Storable(processed_records[i]))

\* the i-th processed record was written: it is an item of the table, or a
\* later record of its key is
WasWritten(i) ==
    \E k \in i..Len(processed_records) :
        /\ SameKey(processed_records[k], processed_records[i])
        /\ \E j \in DOMAIN table : table[j] = processed_records[k]

\* C25 as claimed: the 'processed_records' number the handler returns is the
\* number of records of the event that were written to the table, and only
\* written records were appended to the history kept for the later records
\* (refuted: write_to_dynamodb logs a failed put_item and returns, and
\* process_record returns the data all the same).
C25_CountMatchesWrites ==
    /\ (pc = "returned" /\ response.statusCode = 200) =>
           response.processed_records =
               Cardinality({i \in DOMAIN processed_records : WasWritten(i)})
    /\ \A i \in DOMAIN history :
           \/ \E j \in DOMAIN fetched : fetched[j] = history[i]
           \/ \E j \in DOMAIN table : table[j] = history[i]
           \/ \E k \in DOMAIN processed_records :
                 processed_records[k] = history[i] /\ WasWritten(k)

\* C26 as claimed: errors_count is reset to 0 only at the end of a pass in
\* which every symbol was fetched and sent; a pass in which some symbol
\* failed does not reset it (refuted: line 151 follows the for loop whatever
\* its symbols did, the failed ones having continued at line 149).
C26_ResetOnlyAfterCleanPass ==
    (pc = "sleep" /\ errors_count = 0) =>
        \A i \in DOMAIN pass_log : pass_log[i] = "processed"

\* C27 as claimed: if from some point on every fetch and send fails, the
\* loop eventually raises and the process exits (refuted: with fewer symbols
\* than MAX_ERRORS the counter is reset at the end of every pass and never
\* reaches MAX_ERRORS).
C27_ExitOnPersistentFailure == (<>[]outage) => <>(pc = "exited")

\* C28: the handler of 10-Push-to-Kinesis returns (it does not raise) after
\* at most 3 attempts of the fetch and at most 3 of the put; it returns 200
\* only when a fetch succeeded and put_record then took that data, and 500
\* otherwise; no record is put for a fetch that failed.
C28_ProducerOutcome ==
    /\ fetch_attempts <= 3
    /\ put_attempts <= 3
    /\ quote = NoQuote => (put_attempts = 0 /\ stream = stream0)
    /\ pc = "done" =>
          /\ answer \in {Answer200, Answer500}
          /\ answer = Answer200 <=> (quote # NoQuote /\ stream = Append(stream0, quote))
          /\ answer = Answer500 =>
                /\ stream = stream0
                /\ \/ quote = NoQuote /\ fetch_attempts = 3
                   \/ quote # NoQuote /\ put_attempts = 3
    /\ pc # "done" => answer = NoResponse

\* the third fetch and the third put went through
C28_Witness ==
    /\ pc = "done"
    /\ answer = Answer200
    /\ fetch_attempts = 3
    /\ put_attempts = 3
    /\ stream0 # <<>>

\* the items of the table that have a 'symbol'
WithSymbol == {i \in DOMAIN export_table : "symbol" \in DOMAIN export_table[i]}

\* C29 as claimed: whatever the number of invocations over an unchanged
\* table, the CSV has one row for every item that has a 'symbol' (the items
\* here being ones whose values convert), no item being appended twice
\* (refuted: every invocation appends a row for every item of the scan to
\* the rows the CSV already has).
C29_ExportAddsOnlyNew ==
    (/\ csv # <<>>
     /\ \A i \in DOMAIN export_table : Exportable(export_table[i]))
    => Len(csv) = Cardinality(WithSymbol)

=============================================================================
